---- MODULE Spec2Model ----
(***************************************************************************)
(* ShareBox: a FUSE filesystem over a local cache (filesystem.py), a sync  *)
(* engine draining a priority queue of upload/download/delete operations   *)
(* (sync_manager.py), an object-store client (r2_client.py) and an AES-GCM *)
(* envelope (encryption.py).                                               *)
(*                                                                         *)
(* Strings are atomic in TLC, so the characters of every path and pattern  *)
(* the model uses are given by the table Chars; the path functions         *)
(* (basename, lstrip, startswith, fnmatch) compute on those characters.    *)
(*                                                                         *)
(* Specifications: SpecQueue (the priority queue and the worker), Spec     *)
(* (the write path of the filesystem), SpecDelete (unlink and getattr),    *)
(* SpecLock (the three callers of sync operations), SpecWatch (the local   *)
(* watcher and the exclusion patterns), SpecFail (a store that refuses     *)
(* requests), SpecStop (shutdown), SpecRestart (start after a crash, with  *)
(* fairness), SpecHandle (flush and release step by step), SpecBusy (a     *)
(* store that never answers), SpecTrip (upload on one device, download on  *)
(* another), SpecCrypto (the envelope alone), SpecList (the listing),      *)
(* SpecAlloc (handles under concurrent open and create), SpecWrite (write  *)
(* on any handle number), SpecOpen (open on a cache miss), SpecCreate      *)
(* (create without a write), SpecPoll (the remote poll), SpecFresh (a      *)
(* peer's put reaching the cache, with fairness), SpecRace (a local write  *)
(* against the poller's download), SpecStatus (get_sync_status),           *)
(* SpecAbandon (the helper after download_file's timeout, with fairness),  *)
(* SpecDedup (the hash comparison on one device), SpecEcho (the watcher's  *)
(* echo of a download), SpecCycle (start after stop), SpecOrphan (writes   *)
(* against an abandoned helper), SpecQuiet (the device at rest).           *)
(***************************************************************************)
EXTENDS Integers, Sequences, FiniteSets, TLC

(***************************************************************************)
(* Bounds of the model.                                                    *)
(***************************************************************************)
\* the clock (time.time()) takes the values 0..MaxTime
MaxTime == 1
\* entries the VFS-level specification lets the queue hold
MaxQueue == 3
\* entries the queue-level specification lets the queue hold
MaxHeap == 5
\* handles open() and create() hand out
MaxHandles == 2
\* events the observer holds before the watcher has dispatched them
MaxEvents == 2
\* files created where flush and release run step by step
MaxCreates == 1
\* byte values are taken modulo ByteMod (256 in the program)
ByteMod == 4
\* bytes of a nonce (12 in the program) and of a GCM tag (16 in the program)
NonceLen == 1
TagLen == 1
\* bytes of the longest byte string that is encrypted or uploaded
MaxLen == 2
\* the greatest modification time of a cache file or an object
MaxStamp == 2

(***************************************************************************)
(* Strings.                                                                *)
(***************************************************************************)
Chars(s) ==
    CASE s = "" -> << >>
      [] s = "/" -> <<"/">>
      [] s = "/a" -> <<"/", "a">>
      [] s = "/b" -> <<"/", "b">>
      [] s = "/t~" -> <<"/", "t", "~">>
      [] s = "/c" -> <<"/", "c">>
      [] s = "/c/a" -> <<"/", "c", "/", "a">>
      [] s = "/c/b" -> <<"/", "c", "/", "b">>
      [] s = "/c/t~" -> <<"/", "c", "/", "t", "~">>
      [] s = "a" -> <<"a">>
      [] s = "b" -> <<"b">>
      [] s = "t~" -> <<"t", "~">>
      [] s = "*~" -> <<"*", "~">>
      [] s = "?" -> <<"?">>

Strings == {"", "/", "/a", "/b", "/t~", "/c", "/c/a", "/c/b", "/c/t~",
            "a", "b", "t~", "*~", "?"}

\* the string with the given characters
Str(cs) == CHOOSE s \in Strings : Chars(s) = cs

\* s[i:] of a character sequence, i counted from 0
Drop(cs, i) == SubSeq(cs, i + 1, Len(cs))

StartsWith(cs, prefix) ==
    /\ Len(prefix) <= Len(cs)
    /\ SubSeq(cs, 1, Len(prefix)) = prefix

\* str.lstrip('/')
RECURSIVE LStripSlash(_)
LStripSlash(cs) ==
    IF cs # << >> /\ Head(cs) = "/" THEN LStripSlash(Tail(cs)) ELSE cs

lstrip(s) == Str(LStripSlash(Chars(s)))

\* os.path.basename: what follows the last '/'
RECURSIVE BaseChars(_)
BaseChars(cs) ==
    IF \E i \in 1..Len(cs) : cs[i] = "/"
    THEN BaseChars(Drop(cs, CHOOSE i \in 1..Len(cs) : cs[i] = "/"))
    ELSE cs

basename(s) == Str(BaseChars(Chars(s)))

\* fnmatch.fnmatch on POSIX (normcase is the identity): '*' matches any run
\* of characters, '?' any one character, every other character itself.  The
\* patterns of the model hold no '[' class.
RECURSIVE FnChars(_, _)
FnChars(name, pat) ==
    IF pat = << >> THEN name = << >>
    ELSE IF Head(pat) = "*"
         THEN \E k \in 0..Len(name) : FnChars(Drop(name, k), Tail(pat))
         ELSE /\ name # << >>
              /\ (Head(pat) = "?" \/ Head(pat) = Head(name))
              /\ FnChars(Tail(name), Tail(pat))

fnmatch(filename, pattern) == FnChars(Chars(filename), Chars(pattern))

(***************************************************************************)
(* Configuration (SyncManager.__init__).                                   *)
(***************************************************************************)
cache_dir == "/c"
excluded_patterns == <<"*~">>
max_file_size == 1
\* the max_keys default of R2Client.list_files (1000 in the program)
max_keys == 2
encryption_enabled == TRUE
EncryptionKey == "k1"

\* virtual paths of the model, in the order the store lists their keys
PathOrder == <<"/a", "/b", "/t~">>
AllPaths == {PathOrder[i] : i \in 1..Len(PathOrder)}

\* SyncManager._to_cache_path / ShareBoxFS._get_cache_path
to_cache_path(virtual_path) ==
    Str(Chars(cache_dir) \o <<"/">> \o Chars(lstrip(virtual_path)))

\* SyncManager._to_virtual_path
to_virtual_path(path) ==
    IF StartsWith(Chars(path), Chars(cache_dir))
    THEN \* '/' + os.path.relpath(path, cache_dir)
         Str(<<"/">> \o LStripSlash(Drop(Chars(path), Len(Chars(cache_dir)))))
    ELSE IF StartsWith(Chars(path), <<"/">>) THEN path
         ELSE Str(<<"/">> \o Chars(path))

\* SyncManager._should_exclude_file
should_exclude_file(path) ==
    \E i \in 1..Len(excluded_patterns) :
        fnmatch(basename(path), excluded_patterns[i])

(***************************************************************************)
(* The sync queue: queue.PriorityQueue over heapq, holding the tuples      *)
(* (100 - priority, SyncOperation).                                        *)
(***************************************************************************)
\* @dataclass SyncOperation: eq is generated, order is not
SyncOperation(operation, path, priority, timestamp) ==
    [operation |-> operation, path |-> path, priority |-> priority,
     timestamp |-> timestamp]

NoOp == SyncOperation("none", "", 0, 0)

QueueItem(op) == [key |-> 100 - op.priority, op |-> op]

\* tuple.__lt__ on (key, op): the first differing element decides; two
\* different SyncOperations have no '<', which raises TypeError
ItemLT(x, y) ==
    IF x.key # y.key THEN (IF x.key < y.key THEN "lt" ELSE "ge")
    ELSE IF x.op = y.op THEN "ge"
    ELSE "TypeError"

\* heap[i] and the swap of heap[i], heap[j], positions counted from 0
At(heap, i) == heap[i + 1]
Swap(heap, i, j) ==
    [heap EXCEPT ![i + 1] = heap[j + 1], ![j + 1] = heap[i + 1]]

\* _heapq.siftdown: the item at pos moves up while it is smaller than its
\* parent; a failing comparison leaves the list as it is at that moment
RECURSIVE siftdown(_, _, _)
siftdown(heap, startpos, pos) ==
    IF pos <= startpos THEN [heap |-> heap, raised |-> FALSE]
    ELSE LET parentpos == (pos - 1) \div 2
             cmp == ItemLT(At(heap, pos), At(heap, parentpos))
         IN  IF cmp = "TypeError" THEN [heap |-> heap, raised |-> TRUE]
             ELSE IF cmp = "ge" THEN [heap |-> heap, raised |-> FALSE]
             ELSE siftdown(Swap(heap, parentpos, pos), startpos, parentpos)

\* _heapq.siftup: the smaller child moves up until pos is a leaf, then the
\* item sifts down from there
RECURSIVE siftup_from(_, _, _)
siftup_from(heap, startpos, pos) ==
    LET endpos == Len(heap)
        limit == endpos \div 2
        left == 2 * pos + 1
    IN  IF pos >= limit THEN siftdown(heap, startpos, pos)
        ELSE IF left + 1 < endpos
             THEN LET cmp == ItemLT(At(heap, left), At(heap, left + 1))
                  IN  IF cmp = "TypeError"
                      THEN [heap |-> heap, raised |-> TRUE]
                      ELSE LET childpos == IF cmp = "lt" THEN left
                                           ELSE left + 1
                           IN  siftup_from(Swap(heap, childpos, pos),
                                           startpos, childpos)
             ELSE siftup_from(Swap(heap, left, pos), startpos, left)

siftup(heap, pos) == siftup_from(heap, pos, pos)

\* heapq.heappush
heappush(heap, item) ==
    siftdown(Append(heap, item), 0, Len(heap))

\* heapq.heappop of a non-empty heap: when the sift raises, the item that
\* was at the root is in neither the list nor the result
heappop(heap) ==
    LET n == Len(heap) - 1
        lastelt == heap[Len(heap)]
        rest == SubSeq(heap, 1, n)
    IN  IF n = 0 THEN [heap |-> rest, raised |-> FALSE, item |-> lastelt]
        ELSE LET r == siftup([rest EXCEPT ![1] = lastelt], 0)
             IN  [heap |-> r.heap, raised |-> r.raised,
                  item |-> IF r.raised THEN QueueItem(NoOp) ELSE heap[1]]

\* PriorityQueue.put of an unbounded queue
put(queue, item) == heappush(queue, item)

\* a faulty queue_upload, for mutation testing: the exclusion check is
\* left out
queue_upload_unfiltered(queue, path, priority, time) ==
    put(queue, QueueItem(
        SyncOperation("upload", to_virtual_path(path), priority, time)))

\* SyncManager.queue_upload
queue_upload(queue, path, priority, time) ==
    LET virtual_path == to_virtual_path(path)
    IN  IF should_exclude_file(virtual_path)
        THEN [heap |-> queue, raised |-> FALSE]
        ELSE put(queue, QueueItem(
                 SyncOperation("upload", virtual_path, priority, time)))

\* SyncManager.queue_download
queue_download(queue, path, priority, time) ==
    put(queue, QueueItem(SyncOperation("download", path, priority, time)))

\* SyncManager.queue_delete
queue_delete(queue, path, priority, time) ==
    put(queue, QueueItem(
        SyncOperation("delete", to_virtual_path(path), priority, time)))

(***************************************************************************)
(* File contents, SHA-256 and the AES-GCM envelope.                        *)
(***************************************************************************)
\* a cache file: the bytes at cache_dir + path, or no file
File(data) == [exists |-> TRUE, data |-> data]
NoFile == [exists |-> FALSE, data |-> << >>]

\* hashlib.sha256(...).hexdigest(): collision-free on the model's contents
sha256(data) == <<"sha256">> \o data

\* the bytes a put stores when encryption is off: the file's bytes
Raw(data) == data

\* byte values are 0..ByteMod-1
Bytes == 0..(ByteMod - 1)

\* passwords in use; EncryptionManager._derive_key: PBKDF2 with the salt
\* sha256(password)[:16], so a password always gives the same key
Passwords == <<"k1", "k2">>
derive_key(password) ==
    CHOOSE k \in 1..Len(Passwords) : Passwords[k] = password

\* a number that identifies a byte string (bijective numeration)
RECURSIVE Code(_)
Code(s) ==
    IF s = << >> THEN 0 ELSE (s[1] + 1) + (ByteMod + 1) * Code(Tail(s))

\* the i-th byte of the AES-CTR key stream of GCM under a key and a nonce
keystream(key, nonce, i) == (key + Code(nonce) + i) % ByteMod

\* encryptor.update(data) + finalize(): the data masked with the key stream
mask(key, nonce, data) ==
    [i \in 1..Len(data) |-> (data[i] + keystream(key, nonce, i)) % ByteMod]

\* decryptor.update(ciphertext): the mask taken off
unmask(key, nonce, ciphertext) ==
    [i \in 1..Len(ciphertext) |->
        (ciphertext[i] + ByteMod - keystream(key, nonce, i)) % ByteMod]

\* the GCM tag: TagLen equal elements holding a number that identifies
\* (key, nonce, ciphertext), so two different triples never share a tag
tag_of(key, nonce, ciphertext) ==
    [i \in 1..TagLen |-> Code(<<key>> \o nonce \o ciphertext)]

\* secrets.token_bytes(12) for the model's draw `nonce`
token_bytes(nonce) == [i \in 1..NonceLen |-> nonce]

\* EncryptionManager.encrypt with the nonce secrets.token_bytes draws:
\* nonce + tag + ciphertext
encrypt(password, nonce, data) ==
    LET key == derive_key(password)
        iv  == token_bytes(nonce)
        ciphertext == mask(key, iv, data)
    IN  iv \o tag_of(key, iv, ciphertext) \o ciphertext

\* what decrypt returns or raises: every exception leaves decrypt as a
\* ValueError whose message names the cause
Decrypted(data) == [raised |-> FALSE, error |-> "", data |-> data]
DecryptFailed(cause) == [raised |-> TRUE, error |-> cause, data |-> << >>]

\* EncryptionManager.decrypt without the check of the tag
decrypt_unauthenticated(password, encrypted_data) ==
    IF Len(encrypted_data) < NonceLen + TagLen
    THEN DecryptFailed("Invalid encrypted data format")
    ELSE LET key == derive_key(password)
             iv  == SubSeq(encrypted_data, 1, NonceLen)
             ciphertext == SubSeq(encrypted_data, NonceLen + TagLen + 1,
                                  Len(encrypted_data))
         IN  Decrypted(unmask(key, iv, ciphertext))

\* EncryptionManager.decrypt: data shorter than nonce + tag is refused, and
\* finalize() raises InvalidTag when the tag does not fit key, nonce and
\* ciphertext
decrypt(password, encrypted_data) ==
    IF Len(encrypted_data) < NonceLen + TagLen
    THEN DecryptFailed("Invalid encrypted data format")
    ELSE LET key == derive_key(password)
             iv  == SubSeq(encrypted_data, 1, NonceLen)
             tag == SubSeq(encrypted_data, NonceLen + 1, NonceLen + TagLen)
             ciphertext == SubSeq(encrypted_data, NonceLen + TagLen + 1,
                                  Len(encrypted_data))
         IN  IF tag = tag_of(key, iv, ciphertext)
             THEN Decrypted(unmask(key, iv, ciphertext))
             ELSE DecryptFailed("InvalidTag")

\* hashlib.sha256(content).hexdigest() of the bytes a put stores
Digest(body) == <<"sha256", body>>

\* config 'device_name'
DeviceName == "device"

\* a remote object with the user metadata _upload_file attaches ('device',
\* 'encrypted', 'original_size') and put_file_content adds ('upload-time',
\* 'content-hash')
Object(body, encrypted, original_size) ==
    [exists |-> TRUE, body |-> body, encrypted |-> encrypted,
     original_size |-> original_size, device |-> DeviceName,
     upload_time |-> "utc", content_hash |-> Digest(body)]
NoObject == [exists |-> FALSE, body |-> Raw(<< >>), encrypted |-> "",
             original_size |-> 0, device |-> "", upload_time |-> "",
             content_hash |-> << >>]

\* a record of file_metadata, or no record
Meta(hash, size) == [present |-> TRUE, hash |-> hash, size |-> size]
NoMeta == [present |-> FALSE, hash |-> << >>, size |-> 0]

(***************************************************************************)
(* Threads that run sync operations: the queue worker (_sync_loop), the    *)
(* helper thread of download_file, the caller thread of upload_file.       *)
(***************************************************************************)
Worker == "worker"
Helper == "helper"
Caller == "caller"
Threads == {Worker, Helper, Caller}

\* a thread's position and the locals of the operation it runs; `seen` is
\* the cache file of the operation's path as it was when the operation was
\* called, `result` what the thread's last operation returned
Idle == [pc |-> "idle", op |-> NoOp, size |-> 0, hash |-> << >>,
         blob |-> NoObject, result |-> FALSE, orphan |-> FALSE,
         seen |-> NoFile]

VARIABLES
    sync_queue,     \* SyncManager.sync_queue: the heap list of the PriorityQueue
    now,            \* time.time()
    running,        \* SyncManager.running
    cache,          \* the cache directory: path -> file
    remote,         \* the bucket: path (key with its leading slash) -> object
    file_metadata,  \* SyncManager.file_metadata
    sync_lock,      \* SyncManager.sync_lock: the thread holding it, or "free"
    thr,            \* each thread's position and locals
    raised,         \* the exception the last queue call ended with, or "none"
    observer,       \* SyncManager.observer is started
    events,         \* file-system events the observer has not dispatched yet
    open_files,     \* ShareBoxFS.open_files: handle -> file info
    fd_counter,     \* ShareBoxFS.fd_counter
    call,           \* the VFS call that waits in download_file, if any
    ret,            \* the last VFS call that returned, and what it returned
    last_written,   \* per path, the bytes its cache file held after the last
                    \* VFS write, until the VFS removes or truncates the file
    gone,           \* per path, "unlinked" once unlink returned, "dispatched"
                    \* once a Delete ran after that, "no" after any other
                    \* change the user makes to the path
    uploaded,       \* the paths the bucket ever held an object for
    inflight,       \* per handle, where the flush call and the release call
                    \* running on it stand
    stop_pc,        \* where SyncManager.stop() stands
    metadata_file,  \* the records in .sharebox_metadata.json
    sent,           \* per path, the bytes _upload_file read for the last put
                    \* the store took
    crypto,         \* an EncryptionManager at work on one byte string
    fs_lock,        \* ShareBoxFS.lock: the FUSE thread holding it, or "free"
    alloc,          \* each FUSE thread's position in the `with self.lock`
                    \* block of open and create, and its local fh
    issued,         \* the handles open and create have stored, in order
    mtime,          \* per path, os.path.getmtime of the cache file and
                    \* LastModified of the object
    status,         \* where a call of get_sync_status() stands, and what it
                    \* has read
    sync_threads    \* the threads that are inside _sync_loop

vars == <<sync_queue, now, running, cache, remote, file_metadata, sync_lock,
          thr, raised, observer, events, open_files, fd_counter, call, ret,
          last_written, gone, uploaded, inflight, stop_pc, metadata_file,
          sent, crypto, fs_lock, alloc, issued, mtime, status,
          sync_threads>>

\* what only the round trip and the envelope specifications look at
alloc_vars == <<fs_lock, alloc, issued>>
\* what the calls of ShareBoxApp other than mount change
app_vars == <<status, sync_threads>>
more_vars == <<sent, crypto, alloc_vars, mtime, app_vars>>
\* what only the stepwise handlers and stop() change
aux_vars == <<inflight, stop_pc, metadata_file, more_vars>>
\* the same without the modification times
still_vars ==
    <<inflight, stop_pc, metadata_file, sent, crypto, alloc_vars, app_vars>>

vfs_vars == <<open_files, fd_counter, call, ret, last_written>>

\* no call of get_sync_status() is running
NoStatus == [pc |-> "idle", files_tracked |-> 0]

\* an EncryptionManager that has been given nothing yet
NoCrypto ==
    [pc |-> "idle", password |-> "", data |-> << >>, envelope |-> << >>,
     tampered |-> FALSE, out |-> Decrypted(<< >>)]

\* the engine after ShareBoxApp.initialize(): empty queue and metadata,
\* nothing running; the cache and the bucket are what they are
InitEngine ==
    /\ sync_queue = << >>
    /\ now = 0
    /\ running = FALSE
    /\ file_metadata = [p \in AllPaths |-> NoMeta]
    /\ sync_lock = "free"
    /\ thr = [t \in Threads |-> Idle]
    /\ raised = "none"
    /\ observer = FALSE
    /\ events = << >>
    /\ stop_pc = "none"
    /\ metadata_file = file_metadata
    /\ sent = [p \in AllPaths |-> NoFile]
    /\ crypto = NoCrypto
    /\ status = NoStatus
    /\ sync_threads = 0

\* an entry of open_files ('path', 'mode', 'dirty'; `at` is the path whose
\* cache file the descriptor 'fd' is open on, "" once that file is unlinked
\* or replaced; `fd` is whether that descriptor is still open; `unsynced` is
\* whether a write went through the handle after the last Upload queued for
\* it), and the absence of an entry
Handle(path, mode, dirty) ==
    [open |-> TRUE, path |-> path, mode |-> mode, dirty |-> dirty,
     at |-> path, fd |-> TRUE, unsynced |-> FALSE]
NoHandle ==
    [open |-> FALSE, path |-> "", mode |-> "", dirty |-> FALSE, at |-> "",
     fd |-> FALSE, unsynced |-> FALSE]

\* no flush and no release is running on a handle
NoCalls == [flush |-> "idle", release |-> "idle"]

\* no VFS call is waiting
NoCall == [op |-> "none", path |-> "", flags |-> ""]

\* the threads FUSE runs handlers on
FuseThreads == {"f1", "f2"}

\* a FUSE thread outside the `with self.lock` block of open and create
NoAlloc == [pc |-> "idle", path |-> "", mode |-> "", dirty |-> FALSE,
            tmp |-> 0, fh |-> 0]

\* modification times nobody looks at: they are kept up to date only where
\* a specification starts with times that are `kept`
NoTimes ==
    [kept |-> FALSE, cache |-> [p \in AllPaths |-> 0],
     remote |-> [p \in AllPaths |-> 0]]

\* the modification times once the cache file (`kind` "cache") or the
\* object (`kind` "remote") of `path` has been written at the time `time`
Stamp(kind, path, time) ==
    IF mtime.kept THEN [mtime EXCEPT ![kind][path] = time] ELSE mtime

\* the filesystem after ShareBoxFS.__init__, before any call, over files
\* and objects with the modification times `times`
InitFSAt(times) ==
    /\ open_files = [fh \in 1..MaxHandles |-> NoHandle]
    /\ fd_counter = 0
    /\ call = NoCall
    /\ ret = [op |-> "none", path |-> "", val |-> "none"]
    /\ last_written = [p \in AllPaths |-> NoFile]
    /\ gone = [p \in AllPaths |-> "no"]
    /\ uploaded = {p \in AllPaths : remote[p].exists}
    /\ inflight = [fh \in 1..MaxHandles |-> NoCalls]
    /\ fs_lock = "free"
    /\ alloc = [c \in FuseThreads |-> NoAlloc]
    /\ issued = << >>
    /\ mtime = times

\* the same where nobody looks at modification times
InitFS == InitFSAt(NoTimes)

\* time passes
Tick ==
    /\ now < MaxTime
    /\ now' = now + 1
    /\ UNCHANGED <<sync_queue, running, cache, remote, file_metadata,
                   sync_lock, thr, raised, observer, events, vfs_vars, gone, uploaded, aux_vars>>

(***************************************************************************)
(* The queue worker: _sync_loop and _process_sync_queue.                   *)
(***************************************************************************)
\* where a dispatched operation starts
FirstPc(operation) ==
    CASE operation = "upload" -> "u_size"
      [] operation = "download" -> "d_get"
      [] operation = "delete" -> "delete"

\* sync_queue.get(timeout=1) of a non-empty queue: heappop; a TypeError
\* from it is logged by the outer handler and the iteration ends
process_sync_queue_get ==
    /\ running
    /\ thr[Worker].pc = "idle"
    /\ sync_queue # << >>
    /\ LET r == heappop(sync_queue)
       IN  /\ sync_queue' = r.heap
           /\ raised' = IF r.raised THEN "get" ELSE "none"
           /\ thr' = [thr EXCEPT ![Worker] =
                        IF r.raised THEN Idle
                        ELSE [Idle EXCEPT !.pc = "lock", !.op = r.item.op]]
    /\ UNCHANGED <<now, running, cache, remote, file_metadata, sync_lock,
                   observer, events, vfs_vars, gone, uploaded, aux_vars>>

\* a faulty entry, for mutation testing: the operation starts without
\* waiting for sync_lock
acquire_without_lock(t) ==
    /\ thr[t].pc = "lock"
    /\ sync_lock' = t
    /\ thr' = [thr EXCEPT ![t].pc = FirstPc(thr[t].op.operation),
                           ![t].seen = cache[thr[t].op.path]]
    /\ UNCHANGED <<sync_queue, now, running, cache, remote, file_metadata,
                   raised, observer, events, vfs_vars, gone, uploaded, aux_vars>>

\* with self.sync_lock: entered by the worker, by download_worker and by
\* upload_file
acquire(t) ==
    /\ thr[t].pc = "lock"
    /\ sync_lock = "free"
    /\ sync_lock' = t
    /\ thr' = [thr EXCEPT ![t].pc = FirstPc(thr[t].op.operation),
                           ![t].seen = cache[thr[t].op.path]]
    /\ UNCHANGED <<sync_queue, now, running, cache, remote, file_metadata,
                   raised, observer, events, vfs_vars, gone, uploaded, aux_vars>>

\* the operation returns `result` and the lock is released: the worker goes
\* back to its loop, a helper or caller thread holds the result for whoever
\* waits for it (an abandoned helper just ends)
Finished(t, result) ==
    IF thr[t].orphan THEN Idle
    ELSE IF t = Worker THEN [Idle EXCEPT !.result = result]
    ELSE [Idle EXCEPT !.pc = "done", !.op = thr[t].op, !.result = result]

finish(t, result) ==
    /\ sync_lock' = "free"
    /\ thr' = [thr EXCEPT ![t] = Finished(t, result)]

\* the events watchdog reports for a change of the cache file of `path`;
\* they are seen only while the observer runs
Event(kind, path) == [kind |-> kind, src |-> to_cache_path(path), dest |-> ""]
Moved(old, new) ==
    [kind |-> "moved", src |-> to_cache_path(old), dest |-> to_cache_path(new)]
Emit(evs) ==
    /\ observer => Len(events) + Len(evs) <= MaxEvents
    /\ events' = IF observer THEN events \o evs ELSE events

\* what writing `data` over the cache file of `path` makes the observer see
WriteEvents(path, data) ==
    (IF cache[path].exists THEN << >> ELSE <<Event("created", path)>>)
    \o (IF cache[path].exists \/ data # << >>
        THEN <<Event("modified", path)>> ELSE << >>)

(***************************************************************************)
(* SyncManager._upload_file, one action per access to the cache file or    *)
(* the store; `t` holds sync_lock throughout.  Any exception (the file     *)
(* vanished under a later access) returns False.                           *)
(***************************************************************************)
\* a faulty size check, for mutation testing: a file of exactly
\* max_file_size bytes is refused too
upload_size_exclusive(t) ==
    /\ thr[t].pc = "u_size"
    /\ LET f == cache[thr[t].op.path]
       IN  IF ~f.exists \/ Len(f.data) >= max_file_size
           THEN finish(t, FALSE)
           ELSE /\ thr' = [thr EXCEPT ![t].pc = "u_hash",
                                      ![t].size = Len(f.data)]
                /\ UNCHANGED sync_lock
    /\ UNCHANGED <<sync_queue, now, running, cache, remote, file_metadata,
                   raised, observer, events, vfs_vars, gone, uploaded, aux_vars>>

\* os.path.exists, os.path.getsize and the max_file_size check
upload_size(t) ==
    /\ thr[t].pc = "u_size"
    /\ LET f == cache[thr[t].op.path]
       IN  IF ~f.exists \/ Len(f.data) > max_file_size
           THEN finish(t, FALSE)
           ELSE /\ thr' = [thr EXCEPT ![t].pc = "u_hash",
                                      ![t].size = Len(f.data)]
                /\ UNCHANGED sync_lock
    /\ UNCHANGED <<sync_queue, now, running, cache, remote, file_metadata,
                   raised, observer, events, vfs_vars, gone, uploaded, aux_vars>>

\* a faulty _upload_file, for mutation testing: the comparison with the
\* recorded hash is left out
upload_hash_without_dedup(t) ==
    /\ thr[t].pc = "u_hash"
    /\ IF ~cache[thr[t].op.path].exists THEN finish(t, FALSE)
       ELSE /\ thr' = [thr EXCEPT ![t].pc = "u_put",
                         ![t].hash = sha256(cache[thr[t].op.path].data)]
            /\ UNCHANGED sync_lock
    /\ UNCHANGED <<sync_queue, now, running, cache, remote, file_metadata,
                   raised, observer, events, vfs_vars, gone, uploaded, aux_vars>>

\* _calculate_file_hash and the comparison with the recorded hash
upload_hash(t) ==
    /\ thr[t].pc = "u_hash"
    /\ LET virtual_path == thr[t].op.path
           f == cache[virtual_path]
           file_hash == sha256(f.data)
       IN  IF ~f.exists THEN finish(t, FALSE)
           ELSE IF /\ file_metadata[virtual_path].present
                   /\ file_metadata[virtual_path].hash = file_hash
           THEN finish(t, TRUE)
           ELSE /\ thr' = [thr EXCEPT ![t].pc = "u_put",
                                      ![t].hash = file_hash]
                /\ UNCHANGED sync_lock
    /\ UNCHANGED <<sync_queue, now, running, cache, remote, file_metadata,
                   raised, observer, events, vfs_vars, gone, uploaded, aux_vars>>

\* the bytes _upload_file hands to put_file_content
UploadBody(data, nonce) ==
    IF encryption_enabled THEN encrypt(EncryptionKey, nonce, data)
    ELSE Raw(data)

\* str(self.encryption is not None)
EncryptedFlag == IF encryption_enabled THEN "True" ELSE "False"

\* open(cache_path).read(), encrypt, put_file_content; `ok` is whether the
\* store takes the put
upload_put(t, nonce, ok) ==
    /\ thr[t].pc = "u_put"
    /\ LET virtual_path == thr[t].op.path
           f == cache[virtual_path]
       IN  IF ~f.exists \/ ~ok
           THEN /\ finish(t, FALSE)
                /\ UNCHANGED <<remote, uploaded, sent, mtime>>
           ELSE /\ remote' = [remote EXCEPT ![virtual_path] =
                      Object(UploadBody(f.data, nonce), EncryptedFlag,
                             thr[t].size)]
                /\ uploaded' = uploaded \cup {virtual_path}
                /\ sent' = [sent EXCEPT ![virtual_path] = File(f.data)]
                /\ mtime' = Stamp("remote", virtual_path, now)
                /\ thr' = [thr EXCEPT ![t].pc = "u_meta"]
                /\ UNCHANGED sync_lock
    /\ UNCHANGED <<sync_queue, now, running, cache, file_metadata, raised,
                   observer, events, vfs_vars, gone, inflight, stop_pc,
                   metadata_file, crypto, alloc_vars, app_vars>>

\* os.path.getmtime and the metadata record, after a put that succeeded
upload_meta(t) ==
    /\ thr[t].pc = "u_meta"
    /\ LET virtual_path == thr[t].op.path
       IN  IF ~cache[virtual_path].exists
           THEN /\ finish(t, FALSE)
                /\ UNCHANGED file_metadata
           ELSE /\ file_metadata' = [file_metadata EXCEPT ![virtual_path] =
                      Meta(thr[t].hash, thr[t].size)]
                /\ finish(t, TRUE)
    /\ UNCHANGED <<sync_queue, now, running, cache, remote, raised, observer,
                   events, vfs_vars, gone, uploaded, aux_vars>>

(***************************************************************************)
(* SyncManager._download_file.                                             *)
(***************************************************************************)
\* get_file_content and get_file_metadata; `ok` is whether the store
\* answers both
download_get(t, ok) ==
    /\ thr[t].pc = "d_get"
    /\ LET obj == remote[thr[t].op.path]
       IN  IF ~obj.exists \/ ~ok
           THEN finish(t, FALSE)
           ELSE /\ thr' = [thr EXCEPT ![t].pc = "d_write", ![t].blob = obj]
                /\ UNCHANGED sync_lock
    /\ UNCHANGED <<sync_queue, now, running, cache, remote, file_metadata,
                   raised, observer, events, vfs_vars, gone, uploaded, aux_vars>>

\* a faulty _download_file, for mutation testing: the stored bytes are
\* written as they are
DownloadStored(obj) == Decrypted(obj.body)

\* what _download_file writes: the decrypted bytes when this device
\* encrypts and the object says 'True', the stored bytes otherwise
DownloadContent(obj) ==
    IF encryption_enabled /\ obj.encrypted = "True"
    THEN decrypt(EncryptionKey, obj.body)
    ELSE Decrypted(obj.body)

\* decrypt, makedirs, open(cache_path, 'wb').write(content)
download_write(t) ==
    /\ thr[t].pc = "d_write"
    /\ LET virtual_path == thr[t].op.path
           content == DownloadContent(thr[t].blob)
       IN  IF content.raised
           THEN /\ finish(t, FALSE)
                /\ UNCHANGED <<cache, events, mtime>>
           ELSE /\ cache' = [cache EXCEPT ![virtual_path] = File(content.data)]
                /\ Emit(WriteEvents(virtual_path, content.data))
                /\ mtime' = Stamp("cache", virtual_path, now)
                /\ thr' = [thr EXCEPT ![t].pc = "d_meta",
                                      ![t].size = Len(content.data)]
                /\ UNCHANGED sync_lock
    /\ UNCHANGED <<sync_queue, now, running, remote, file_metadata, raised,
                   observer, vfs_vars, gone, uploaded, still_vars>>

\* a faulty _download_file, for mutation testing: no record is written
download_meta_without_record(t) ==
    /\ thr[t].pc = "d_meta"
    /\ finish(t, cache[thr[t].op.path].exists)
    /\ UNCHANGED <<sync_queue, now, running, cache, remote, file_metadata,
                   raised, observer, events, vfs_vars, gone, uploaded, aux_vars>>

\* _calculate_file_hash(cache_path) and the metadata record
download_meta(t) ==
    /\ thr[t].pc = "d_meta"
    /\ LET virtual_path == thr[t].op.path
           f == cache[virtual_path]
       IN  IF ~f.exists
           THEN /\ finish(t, FALSE)
                /\ UNCHANGED file_metadata
           ELSE /\ file_metadata' = [file_metadata EXCEPT ![virtual_path] =
                      Meta(sha256(f.data), thr[t].size)]
                /\ finish(t, TRUE)
    /\ UNCHANGED <<sync_queue, now, running, cache, remote, raised, observer,
                   events, vfs_vars, gone, uploaded, aux_vars>>

(***************************************************************************)
(* SyncManager._delete_file; `ok` is whether the store takes the delete.   *)
(***************************************************************************)
\* a faulty _delete_file, for mutation testing: the object is deleted and
\* the record kept
delete_file_keeping_record(t, ok) ==
    /\ thr[t].pc = "delete"
    /\ LET virtual_path == thr[t].op.path
       IN  IF ok
           THEN /\ remote' = [remote EXCEPT ![virtual_path] = NoObject]
                /\ gone' = [gone EXCEPT ![virtual_path] =
                      IF @ = "unlinked" THEN "dispatched" ELSE @]
                /\ finish(t, TRUE)
           ELSE /\ finish(t, FALSE)
                /\ UNCHANGED <<remote, gone>>
    /\ UNCHANGED <<sync_queue, now, running, cache, file_metadata, raised,
                   observer, events, vfs_vars, uploaded, aux_vars>>

\* a faulty _delete_file, for mutation testing: the record is removed
\* whatever the store answered
delete_file_dropping_record(t, ok) ==
    /\ thr[t].pc = "delete"
    /\ LET virtual_path == thr[t].op.path
       IN  /\ file_metadata' = [file_metadata EXCEPT ![virtual_path] = NoMeta]
           /\ IF ok
              THEN /\ remote' = [remote EXCEPT ![virtual_path] = NoObject]
                   /\ gone' = [gone EXCEPT ![virtual_path] =
                         IF @ = "unlinked" THEN "dispatched" ELSE @]
                   /\ finish(t, TRUE)
              ELSE /\ finish(t, FALSE)
                   /\ UNCHANGED <<remote, gone>>
    /\ UNCHANGED <<sync_queue, now, running, cache, raised, observer, events,
                   vfs_vars, uploaded, aux_vars>>

delete_file(t, ok) ==
    /\ thr[t].pc = "delete"
    /\ LET virtual_path == thr[t].op.path
       IN  IF ok
           THEN /\ remote' = [remote EXCEPT ![virtual_path] = NoObject]
                /\ file_metadata' =
                      [file_metadata EXCEPT ![virtual_path] = NoMeta]
                /\ gone' = [gone EXCEPT ![virtual_path] =
                      IF @ = "unlinked" THEN "dispatched" ELSE @]
                /\ finish(t, TRUE)
           ELSE /\ finish(t, FALSE)
                /\ UNCHANGED <<remote, file_metadata, gone>>
    /\ UNCHANGED <<sync_queue, now, running, cache, raised, observer, events,
                   vfs_vars, uploaded, aux_vars>>

\* one step of the sync operation thread `t` runs; the store's answers are
\* drawn from Answers and the nonce from Nonces
Nonces == {1}

upload_step(t, Answers) ==
    \/ upload_size(t)
    \/ upload_hash(t)
    \/ \E nonce \in Nonces, ok \in Answers : upload_put(t, nonce, ok)
    \/ upload_meta(t)

download_step(t, Answers) ==
    \/ \E ok \in Answers : download_get(t, ok)
    \/ download_write(t)
    \/ download_meta(t)

sync_step(t, Answers) ==
    \/ acquire(t)
    \/ upload_step(t, Answers)
    \/ download_step(t, Answers)
    \/ \E ok \in Answers : delete_file(t, ok)

(***************************************************************************)
(* SyncManager.start.                                                      *)
(***************************************************************************)
\* the queue after queue_download(path, priority) for each path of `paths`
\* in turn; the loop ends at the first call that raises
RECURSIVE queue_downloads(_, _, _, _)
queue_downloads(queue, paths, priority, time) ==
    IF paths = << >> THEN [heap |-> queue, raised |-> FALSE]
    ELSE LET r == queue_download(queue, Head(paths), priority, time)
         IN  IF r.raised THEN r
             ELSE queue_downloads(r.heap, Tail(paths), priority, time)

\* R2Client.list_files(): one list_objects_v2 request with MaxKeys =
\* max_keys, so the first max_keys keys of the bucket in the store's order;
\* an exception (`ok` false) is logged and gives the empty list
list_files(bucket, ok) ==
    LET keys == SelectSeq(PathOrder, LAMBDA p : bucket[p].exists)
    IN  IF ok
        THEN SubSeq(keys, 1, IF Len(keys) < max_keys THEN Len(keys)
                             ELSE max_keys)
        ELSE << >>

\* list_remote_files(): '/' + key for every file list_files returns
list_remote_files(bucket, ok) == list_files(bucket, ok)

\* list_remote_files() over a store that answers
RemoteFiles == list_remote_files(remote, TRUE)

\* queue_initial_sync: a Download at priority 0 for every remote file that
\* has no cache file; an exception ends the pass and is logged
queue_initial_sync ==
    LET missing == SelectSeq(RemoteFiles, LAMBDA p : ~cache[p].exists)
        r == queue_downloads(sync_queue, missing, 0, now)
    IN  /\ Len(sync_queue) + Len(missing) <= MaxQueue
        /\ sync_queue' = r.heap
        /\ raised' = IF r.raised THEN "put" ELSE "none"

\* start(): the worker thread, the file watcher (`watching`: whether the
\* observer could be started) and the initial sync; sync_threads counts
\* the threads that are inside _sync_loop
start(watching) ==
    /\ ~running
    /\ running' = TRUE
    /\ sync_threads' = sync_threads + 1
    /\ observer' = watching
    /\ queue_initial_sync
    /\ UNCHANGED <<now, cache, remote, file_metadata, sync_lock, thr, events,
                   vfs_vars, gone, uploaded, inflight, stop_pc,
                   metadata_file, sent, crypto, alloc_vars, mtime, status>>

(***************************************************************************)
(* The queue-level specification: the engine runs over a cache file and an *)
(* empty bucket, and queue_upload (priority 0 as from the VFS, 1 and 2 as  *)
(* from the watcher), queue_download (0 as from the initial sync) and      *)
(* queue_delete (1 as from the watcher) are called.                        *)
(***************************************************************************)
Priorities == {0, 1, 2}

call_queue_upload(path, priority) ==
    /\ running
    /\ Len(sync_queue) < MaxHeap
    /\ LET r == queue_upload(sync_queue, path, priority, now)
       IN  /\ sync_queue' = r.heap
           /\ raised' = IF r.raised THEN "put" ELSE "none"
    /\ UNCHANGED <<now, running, cache, remote, file_metadata, sync_lock,
                   thr, observer, events, vfs_vars, gone, uploaded, aux_vars>>

call_queue_download(path, priority) ==
    /\ running
    /\ Len(sync_queue) < MaxHeap
    /\ LET r == queue_download(sync_queue, path, priority, now)
       IN  /\ sync_queue' = r.heap
           /\ raised' = IF r.raised THEN "put" ELSE "none"
    /\ UNCHANGED <<now, running, cache, remote, file_metadata, sync_lock,
                   thr, observer, events, vfs_vars, gone, uploaded, aux_vars>>

call_queue_delete(path, priority) ==
    /\ running
    /\ Len(sync_queue) < MaxHeap
    /\ LET r == queue_delete(sync_queue, path, priority, now)
       IN  /\ sync_queue' = r.heap
           /\ raised' = IF r.raised THEN "put" ELSE "none"
    /\ UNCHANGED <<now, running, cache, remote, file_metadata, sync_lock,
                   thr, observer, events, vfs_vars, gone, uploaded, aux_vars>>

QueuePaths == {"/a"}

\* the engine before start(), with a cache file for every path of QueuePaths
InitQueue ==
    /\ InitEngine
    /\ cache = [p \in AllPaths |->
                  IF p \in QueuePaths THEN File(<<1>>) ELSE NoFile]
    /\ remote = [p \in AllPaths |-> NoObject]
    /\ InitFS

NextQueue ==
    \/ Tick
    \/ start(FALSE)
    \/ \E p \in QueuePaths, priority \in Priorities :
          call_queue_upload(p, priority)
    \/ \E p \in QueuePaths : call_queue_download(p, 0)
    \/ \E p \in QueuePaths : call_queue_delete(p, 1)
    \/ process_sync_queue_get
    \/ sync_step(Worker, {TRUE})

SpecQueue == InitQueue /\ [][NextQueue]_vars

\* the worker takes an operation off the queue
Dequeues ==
    /\ thr[Worker].pc = "idle"
    /\ thr'[Worker].pc = "lock"

\* C6: whenever the worker dequeues an operation, its priority is at least
\* that of every operation still in the queue.
C6_HigherPriorityFirst ==
    [][Dequeues =>
         \A i \in 1..Len(sync_queue') :
             thr'[Worker].op.priority >= sync_queue'[i].op.priority]_vars

\* C7: every enqueue succeeds, no operation is dropped, and an operation is
\* never dispatched while an operation of the same path and priority that
\* was enqueued earlier still waits.
C7_EnqueueSucceedsFifo ==
    [][/\ raised' = "none"
       /\ Dequeues =>
            \A i \in 1..Len(sync_queue') :
                LET waiting == sync_queue'[i].op
                    taken == thr'[Worker].op
                IN  ~ /\ waiting.path = taken.path
                      /\ waiting.priority = taken.priority
                      /\ waiting.timestamp < taken.timestamp]_vars

(***************************************************************************)
(* ShareBoxFS: the FUSE handlers.  FUSE runs them on several threads, so   *)
(* a handler that waits in download_file (getattr, open) leaves the others *)
(* free to run; `call` holds the one handler that waits.                   *)
(***************************************************************************)
Returns(op, path, val) == ret' = [op |-> op, path |-> path, val |-> val]

\* download_file(path): the helper thread is started
download_file_start(path) ==
    /\ thr[Helper].pc = "idle"
    /\ thr' = [thr EXCEPT ![Helper] =
                 [Idle EXCEPT !.pc = "lock",
                              !.op = SyncOperation("download", path, 0, 0)]]

\* a faulty download_file, for mutation testing: the helper is stopped at
\* the timeout
download_file_join_cancelling(result) ==
    \/ /\ thr[Helper].pc = "done"
       /\ result = thr[Helper].result
       /\ thr' = [thr EXCEPT ![Helper] = Idle]
    \/ /\ thr[Helper].pc \notin {"idle", "done"}
       /\ result = FALSE
       /\ thr' = [thr EXCEPT ![Helper] = Idle]

\* thread.join(timeout) and what download_file returns: the helper's result
\* once it ended, False while it is still alive at the timeout (it is left
\* running)
download_file_join(result) ==
    \/ /\ thr[Helper].pc = "done"
       /\ result = thr[Helper].result
       /\ thr' = [thr EXCEPT ![Helper] = Idle]
    \/ /\ thr[Helper].pc \notin {"idle", "done"}
       /\ result = FALSE
       /\ thr' = [thr EXCEPT ![Helper].orphan = TRUE]

\* what head_object does: it answers (found or 404), fails with another
\* ClientError, or raises an error that is no ClientError
HeadAnswers == {"answer", "ClientError", "error"}

\* a faulty file_exists_remote, for mutation testing: a failed request
\* counts as True
file_exists_remote_on_error(virtual_path, head) ==
    IF head = "answer" /\ ~remote[virtual_path].exists THEN "False"
    ELSE "True"

\* SyncManager.file_exists_remote over R2Client.file_exists: only a
\* ClientError is caught there
file_exists_remote(virtual_path, head) ==
    CASE head = "answer" ->
            IF remote[virtual_path].exists THEN "True" ELSE "False"
      [] head = "ClientError" -> "False"
      [] head = "error" -> "raised"

\* getattr(path): the root, a cached file, or a remote file that is
\* downloaded first; anything else, a failing check included, is ENOENT
getattr(path, head) ==
    /\ running
    /\ IF path = "/"
       THEN /\ Returns("getattr", path, "dir")
            /\ UNCHANGED <<thr, call>>
       ELSE IF cache[path].exists
       THEN /\ Returns("getattr", path, "stat")
            /\ UNCHANGED <<thr, call>>
       ELSE IF file_exists_remote(path, head) = "True"
       THEN /\ call = NoCall
            /\ download_file_start(path)
            /\ call' = [op |-> "getattr", path |-> path, flags |-> "O_RDONLY"]
            /\ UNCHANGED ret
       ELSE /\ Returns("getattr", path, "ENOENT")
            /\ UNCHANGED <<thr, call>>
    /\ UNCHANGED <<sync_queue, now, running, cache, remote, file_metadata,
                   sync_lock, raised, observer, events, open_files,
                   fd_counter, last_written, gone, uploaded, aux_vars>>

\* getattr after download_file returned: the file's attributes, or those of
\* an empty regular file when the download failed
getattr_return ==
    /\ call.op = "getattr"
    /\ \E result \in BOOLEAN :
          /\ download_file_join(result)
          /\ Returns("getattr", call.path,
                     IF result /\ cache[call.path].exists
                     THEN "stat" ELSE "default")
    /\ call' = NoCall
    /\ UNCHANGED <<sync_queue, now, running, cache, remote, file_metadata,
                   sync_lock, raised, observer, events, open_files,
                   fd_counter, last_written, gone, uploaded, aux_vars>>

\* a VFS call changed `path` otherwise than by unlinking it
Touch(paths) == gone' = [p \in AllPaths |-> IF p \in paths THEN "no" ELSE gone[p]]

\* a handle can be handed out
CanAllocate == fd_counter < MaxHandles /\ call.op # "open"

OpenFlags == {"O_RDONLY", "O_WRONLY"}

\* a faulty second half of open(), for mutation testing: a missing cache
\* file is created whatever the flags
open_cache_creating(path, flags) ==
    /\ fd_counter' = fd_counter + 1
    /\ open_files' = [open_files EXCEPT ![fd_counter + 1] =
          Handle(path, IF flags = "O_RDONLY" THEN "r" ELSE "w", FALSE)]
    /\ IF cache[path].exists
       THEN UNCHANGED <<cache, events, last_written, mtime>>
       ELSE /\ cache' = [cache EXCEPT ![path] = File(<< >>)]
            /\ Emit(<<Event("created", path)>>)
            /\ last_written' = [last_written EXCEPT ![path] = NoFile]
            /\ mtime' = Stamp("cache", path, now)
    /\ Returns("open", path, "fh")

\* the second half of open(): os.open of the cache file, created when it is
\* missing and the flags ask for writing, and the new entry of open_files
open_cache(path, flags) ==
    IF cache[path].exists \/ flags # "O_RDONLY"
    THEN /\ fd_counter' = fd_counter + 1
         /\ open_files' = [open_files EXCEPT ![fd_counter + 1] =
               Handle(path, IF flags = "O_RDONLY" THEN "r" ELSE "w", FALSE)]
         /\ IF cache[path].exists
            THEN UNCHANGED <<cache, events, last_written, mtime>>
            ELSE /\ cache' = [cache EXCEPT ![path] = File(<< >>)]
                 /\ Emit(<<Event("created", path)>>)
                 /\ last_written' = [last_written EXCEPT ![path] = NoFile]
                 /\ mtime' = Stamp("cache", path, now)
         /\ Returns("open", path, "fh")
    ELSE /\ Returns("open", path, "ENOENT")
         /\ UNCHANGED <<fd_counter, open_files, cache, events, last_written,
                        mtime>>

\* open(path, flags): a cache miss goes through download_file first
open(path, flags) ==
    /\ running
    /\ CanAllocate
    /\ IF cache[path].exists
       THEN /\ open_cache(path, flags)
            /\ UNCHANGED <<thr, call>>
       ELSE /\ call = NoCall
            /\ download_file_start(path)
            /\ call' = [op |-> "open", path |-> path, flags |-> flags]
            /\ UNCHANGED <<cache, events, open_files, fd_counter, ret,
                           last_written, mtime>>
    /\ Touch({path})
    /\ UNCHANGED <<sync_queue, now, running, remote, file_metadata,
                   sync_lock, raised, observer, uploaded, still_vars>>

\* open after download_file returned, whatever it returned
open_return ==
    /\ call.op = "open"
    /\ \E result \in BOOLEAN : download_file_join(result)
    /\ open_cache(call.path, call.flags)
    /\ call' = NoCall
    /\ Touch({call.path})
    /\ UNCHANGED <<sync_queue, now, running, remote, file_metadata,
                   sync_lock, raised, observer, uploaded, still_vars>>

\* create(path): os.open(O_WRONLY | O_CREAT | O_TRUNC) and a dirty handle
create(path) ==
    /\ running
    /\ CanAllocate
    /\ cache' = [cache EXCEPT ![path] = File(<< >>)]
    /\ Emit(<<Event(IF cache[path].exists THEN "modified" ELSE "created",
                    path)>>)
    /\ fd_counter' = fd_counter + 1
    /\ open_files' = [open_files EXCEPT ![fd_counter + 1] =
          Handle(path, "w", TRUE)]
    /\ last_written' = [last_written EXCEPT ![path] = NoFile]
    /\ mtime' = Stamp("cache", path, now)
    /\ Returns("create", path, "fh")
    /\ Touch({path})
    /\ UNCHANGED <<sync_queue, now, running, remote, file_metadata,
                   sync_lock, thr, raised, observer, call, uploaded,
                   still_vars>>

\* the bytes of a file after os.lseek(fd, offset) and os.write(fd, buf)
WriteAt(data, buf, offset) ==
    LET end == offset + Len(buf)
        n == IF Len(data) > end THEN Len(data) ELSE end
    IN  [i \in 1..n |->
           IF i > offset /\ i <= end THEN buf[i - offset]
           ELSE IF i <= Len(data) THEN data[i] ELSE 0]

\* write(path, buf, offset, fh) with a handle that is not in open_files:
\* FuseOSError(EBADF) before anything is touched
write_ebadf(fh, buf, offset) ==
    /\ running
    /\ ~open_files[fh].open
    /\ Returns("write", "", "EBADF")
    /\ UNCHANGED <<sync_queue, now, running, cache, remote, file_metadata,
                   sync_lock, thr, raised, observer, events, open_files,
                   fd_counter, call, last_written, gone, uploaded, aux_vars>>

\* a faulty write, for mutation testing: the bytes are written and the
\* handle is not marked dirty
write_without_dirty(fh, buf, offset) ==
    /\ running
    /\ open_files[fh].open
    /\ LET h == open_files[fh]
       IN  IF h.mode = "r" \/ ~h.fd
           THEN /\ Returns("write", h.path, "EIO")
                /\ UNCHANGED <<cache, events, open_files, last_written,
                               mtime>>
           ELSE /\ open_files' = [open_files EXCEPT ![fh].unsynced = TRUE]
                /\ Returns("write", h.path, "written")
                /\ IF h.at = ""
                   THEN UNCHANGED <<cache, events, last_written, mtime>>
                   ELSE LET f == File(WriteAt(cache[h.at].data, buf, offset))
                        IN  /\ cache' = [cache EXCEPT ![h.at] = f]
                            /\ Emit(<<Event("modified", h.at)>>)
                            /\ last_written' =
                                  [last_written EXCEPT ![h.at] = f]
                            /\ mtime' = Stamp("cache", h.at, now)
    /\ Touch({open_files[fh].path, open_files[fh].at} \ {""})
    /\ UNCHANGED <<sync_queue, now, running, remote, file_metadata,
                   sync_lock, thr, raised, observer, fd_counter, call,
                   uploaded, still_vars>>

\* write(path, buf, offset, fh) on a handle that is in open_files: a
\* descriptor opened O_RDONLY, or one that release has closed already, fails
\* with EBADF, reported as EIO
write(fh, buf, offset) ==
    /\ running
    /\ open_files[fh].open
    /\ LET h == open_files[fh]
       IN  IF h.mode = "r" \/ ~h.fd
           THEN /\ Returns("write", h.path, "EIO")
                /\ UNCHANGED <<cache, events, open_files, last_written,
                               mtime>>
           ELSE /\ open_files' = [open_files EXCEPT ![fh].dirty = TRUE,
                                                    ![fh].unsynced = TRUE]
                /\ Returns("write", h.path, "written")
                /\ IF h.at = ""
                   THEN UNCHANGED <<cache, events, last_written, mtime>>
                   ELSE LET f == File(WriteAt(cache[h.at].data, buf, offset))
                        IN  /\ cache' = [cache EXCEPT ![h.at] = f]
                            /\ Emit(<<Event("modified", h.at)>>)
                            /\ last_written' =
                                  [last_written EXCEPT ![h.at] = f]
                            /\ mtime' = Stamp("cache", h.at, now)
    /\ Touch({open_files[fh].path, open_files[fh].at} \ {""})
    /\ UNCHANGED <<sync_queue, now, running, remote, file_metadata,
                   sync_lock, thr, raised, observer, fd_counter, call,
                   uploaded, still_vars>>

\* a faulty flush, for mutation testing: the upload is made under sync_lock,
\* as upload_file does, instead of being queued
flush_under_sync_lock(fh) ==
    /\ running
    /\ open_files[fh].open
    /\ LET h == open_files[fh]
           r == queue_upload(sync_queue, h.path, 0, now)
       IN  /\ IF h.dirty
              THEN /\ sync_lock = "free"
                   /\ Len(sync_queue) < MaxQueue
                   /\ sync_queue' = r.heap
                   /\ raised' = IF r.raised THEN "put" ELSE "none"
                   /\ open_files' = [open_files EXCEPT
                         ![fh].dirty = r.raised,
                         ![fh].unsynced = r.raised /\ h.unsynced]
              ELSE UNCHANGED <<sync_queue, raised, open_files>>
           /\ Returns("flush", h.path, "ok")
           /\ Touch({h.path})
    /\ UNCHANGED <<now, running, cache, remote, file_metadata, sync_lock,
                   thr, observer, events, fd_counter, call, last_written,
                   uploaded, aux_vars>>

\* flush(path, fh) on an open handle: a dirty handle queues an upload; when
\* queue_upload raises, the handler logs it and the handle stays dirty
flush(fh) ==
    /\ running
    /\ open_files[fh].open
    /\ LET h == open_files[fh]
           r == queue_upload(sync_queue, h.path, 0, now)
       IN  /\ IF h.dirty
              THEN /\ Len(sync_queue) < MaxQueue
                   /\ sync_queue' = r.heap
                   /\ raised' = IF r.raised THEN "put" ELSE "none"
                   /\ open_files' = [open_files EXCEPT
                         ![fh].dirty = r.raised,
                         ![fh].unsynced = r.raised /\ h.unsynced]
              ELSE UNCHANGED <<sync_queue, raised, open_files>>
           /\ Returns("flush", h.path, "ok")
           /\ Touch({h.path})
    /\ UNCHANGED <<now, running, cache, remote, file_metadata, sync_lock,
                   thr, observer, events, fd_counter, call, last_written,
                   uploaded, aux_vars>>

\* release(path, fh) on an open handle: a dirty handle queues an upload
\* (an exception is logged), the descriptor is closed and the entry removed
release(fh) ==
    /\ running
    /\ open_files[fh].open
    /\ LET h == open_files[fh]
           r == queue_upload(sync_queue, h.path, 0, now)
       IN  /\ IF h.dirty
              THEN /\ Len(sync_queue) < MaxQueue
                   /\ sync_queue' = r.heap
                   /\ raised' = IF r.raised THEN "put" ELSE "none"
              ELSE UNCHANGED <<sync_queue, raised>>
           /\ open_files' = [open_files EXCEPT ![fh] = NoHandle]
           /\ Returns("release", h.path, "ok")
           /\ Touch({h.path})
    /\ UNCHANGED <<now, running, cache, remote, file_metadata, sync_lock,
                   thr, observer, events, fd_counter, call, last_written,
                   uploaded, aux_vars>>

\* the descriptors that were open on the cache file of `path` lose it
Detach(files, path) ==
    [fh \in DOMAIN files |->
        IF files[fh].at = path THEN [files[fh] EXCEPT !.at = ""]
        ELSE files[fh]]

\* unlink(path): the cache file is removed and a Delete queued; an
\* exception from queue_delete is reported as EIO
unlink(path) ==
    /\ running
    /\ Len(sync_queue) < MaxQueue
    /\ cache' = [cache EXCEPT ![path] = NoFile]
    /\ Emit(IF cache[path].exists THEN <<Event("deleted", path)>>
            ELSE << >>)
    /\ open_files' = Detach(open_files, path)
    /\ last_written' = [last_written EXCEPT ![path] = NoFile]
    /\ LET r == queue_delete(sync_queue, path, 0, now)
       IN  /\ sync_queue' = r.heap
           /\ raised' = IF r.raised THEN "put" ELSE "none"
           /\ Returns("unlink", path, IF r.raised THEN "EIO" ELSE "ok")
           /\ gone' = [gone EXCEPT ![path] =
                         IF r.raised THEN "no" ELSE "unlinked"]
    /\ UNCHANGED <<now, running, remote, file_metadata, sync_lock, thr,
                   observer, fd_counter, call, uploaded, aux_vars>>

\* rename(old, new): os.rename of an existing cache file, then a Delete of
\* old and an Upload of new; the first exception ends the handler with EIO
rename(old, new) ==
    /\ running
    /\ old # new
    /\ Len(sync_queue) + 2 <= MaxQueue
    /\ IF cache[old].exists
       THEN /\ cache' = [cache EXCEPT ![old] = NoFile, ![new] = cache[old]]
            /\ Emit(<<Moved(old, new)>>)
            /\ open_files' =
                  [fh \in DOMAIN open_files |->
                      IF open_files[fh].at = old
                      THEN [open_files[fh] EXCEPT !.at = new]
                      ELSE Detach(open_files, new)[fh]]
            /\ last_written' =
                  [last_written EXCEPT ![old] = NoFile, ![new] = NoFile]
            /\ mtime' = Stamp("cache", new, mtime.cache[old])
       ELSE UNCHANGED <<cache, events, open_files, last_written, mtime>>
    /\ LET d == queue_delete(sync_queue, old, 0, now)
           u == queue_upload(d.heap, new, 0, now)
           r == IF d.raised THEN d ELSE u
       IN  /\ sync_queue' = r.heap
           /\ raised' = IF r.raised THEN "put" ELSE "none"
           /\ Returns("rename", old, IF r.raised THEN "EIO" ELSE "ok")
    /\ Touch({old, new})
    /\ UNCHANGED <<now, running, remote, file_metadata, sync_lock, thr,
                   observer, fd_counter, call, uploaded, still_vars>>

(***************************************************************************)
(* LocalFileWatcher: the observer thread hands the oldest event to its     *)
(* handler.                                                                *)
(***************************************************************************)
\* on_modified, on_created, on_deleted, on_moved
on_event(queue, event, time) ==
    CASE event.kind = "modified" -> queue_upload(queue, event.src, 1, time)
      [] event.kind = "created" -> queue_upload(queue, event.src, 2, time)
      [] event.kind = "deleted" -> queue_delete(queue, event.src, 1, time)
      [] event.kind = "moved" ->
            LET d == queue_delete(queue, event.src, 1, time)
            IN  IF d.raised THEN d
                ELSE queue_upload(d.heap, event.dest, 2, time)

dispatch ==
    /\ events # << >>
    /\ Len(sync_queue) + 2 <= MaxQueue
    /\ LET r == on_event(sync_queue, Head(events), now)
       IN  /\ sync_queue' = r.heap
           /\ raised' = IF r.raised THEN "put" ELSE "none"
    /\ events' = Tail(events)
    /\ UNCHANGED <<now, running, cache, remote, file_metadata, sync_lock,
                   thr, observer, vfs_vars, gone, uploaded, aux_vars>>

\* ShareBoxApp.force_sync: queue_initial_sync on the running engine
force_sync ==
    /\ running
    /\ queue_initial_sync
    /\ gone' = [p \in AllPaths |-> "no"]
    /\ UNCHANGED <<now, running, cache, remote, file_metadata, sync_lock,
                   thr, observer, events, vfs_vars, uploaded, aux_vars>>

(***************************************************************************)
(* The VFS-level specification: the mounted filesystem over a running      *)
(* engine and a store that answers every put, get and delete.              *)
(***************************************************************************)
VfsPaths == {"/a"}
Bufs == {<<1>>, <<2>>}
Offsets == {0}

\* an object another device uploaded with the same key; its cleartext is
\* larger than max_file_size
PeerObject == Object(encrypt(EncryptionKey, 1, <<2, 2>>), "True", 2)

\* nothing cached, the bucket holds the peer's object
Init ==
    /\ InitEngine
    /\ cache = [p \in AllPaths |-> NoFile]
    /\ remote = [p \in AllPaths |-> IF p = "/a" THEN PeerObject
                                    ELSE NoObject]
    /\ InitFS

\* the write path: open, create, write, flush and release against the
\* worker and the download helper; nothing queues a Delete here
Next ==
    \/ start(FALSE)
    \/ process_sync_queue_get
    \/ acquire(Worker)
    \/ upload_step(Worker, {TRUE})
    \/ download_step(Worker, {TRUE})
    \/ acquire(Helper)
    \/ download_step(Helper, {TRUE})
    \/ \E p \in VfsPaths, flags \in OpenFlags : open(p, flags)
    \/ open_return
    \/ \E p \in VfsPaths : create(p)
    \/ \E fh \in 1..MaxHandles, buf \in Bufs, offset \in Offsets :
          write(fh, buf, offset)
    \/ \E fh \in 1..MaxHandles : flush(fh)
    \/ \E fh \in 1..MaxHandles : release(fh)

Spec == Init /\ [][Next]_vars

\* the delete path: unlink and getattr against the worker, the download
\* helper and a forced sync; nothing queues an Upload here
NextDelete ==
    \/ start(FALSE)
    \/ force_sync
    \/ process_sync_queue_get
    \/ acquire(Worker)
    \/ download_step(Worker, {TRUE})
    \/ delete_file(Worker, TRUE)
    \/ acquire(Helper)
    \/ download_step(Helper, {TRUE})
    \/ \E p \in VfsPaths \cup {"/", "/b"}, head \in HeadAnswers :
          getattr(p, head)
    \/ getattr_return
    \/ \E p \in VfsPaths : unlink(p)

SpecDelete == Init /\ [][NextDelete]_vars

\* SyncManager.upload_file(path): the calling thread takes sync_lock and
\* runs _upload_file
upload_file(path) ==
    /\ thr[Caller].pc = "idle"
    /\ thr' = [thr EXCEPT ![Caller] =
                 [Idle EXCEPT !.pc = "lock",
                              !.op = SyncOperation("upload", path, 0, 0)]]
    /\ UNCHANGED <<sync_queue, now, running, cache, remote, file_metadata,
                   sync_lock, raised, observer, events, vfs_vars, gone,
                   uploaded, aux_vars>>

\* upload_file returns what _upload_file returned
upload_file_return ==
    /\ thr[Caller].pc = "done"
    /\ thr' = [thr EXCEPT ![Caller] = Idle]
    /\ UNCHANGED <<sync_queue, now, running, cache, remote, file_metadata,
                   sync_lock, raised, observer, events, vfs_vars, gone,
                   uploaded, aux_vars>>

\* a cached file whose object a peer has replaced
InitLock ==
    /\ InitEngine
    /\ cache = [p \in AllPaths |-> IF p = "/a" THEN File(<<1>>) ELSE NoFile]
    /\ remote = [p \in AllPaths |-> IF p = "/a" THEN PeerObject
                                    ELSE NoObject]
    /\ InitFS

\* the three entry points of sync operations side by side: the worker
\* (unlink, forced sync), the download helper (getattr) and upload_file
NextLock ==
    \/ start(FALSE)
    \/ force_sync
    \/ process_sync_queue_get
    \/ sync_step(Worker, {TRUE})
    \/ sync_step(Helper, {TRUE})
    \/ sync_step(Caller, {TRUE})
    \/ \E p \in VfsPaths, head \in HeadAnswers : getattr(p, head)
    \/ getattr_return
    \/ \E p \in VfsPaths : unlink(p)
    \/ \E p \in VfsPaths : upload_file(p)
    \/ upload_file_return

SpecLock == InitLock /\ [][NextLock]_vars

\* the local watcher beside the VFS calls that queue uploads, with a path
\* that matches an excluded pattern
WatchPaths == {"/a", "/t~"}

\* nothing cached, an empty bucket
InitWatch ==
    /\ InitEngine
    /\ cache = [p \in AllPaths |-> NoFile]
    /\ remote = [p \in AllPaths |-> NoObject]
    /\ InitFS

NextWatch ==
    \/ start(TRUE)
    \/ process_sync_queue_get
    \/ acquire(Worker)
    \/ upload_step(Worker, {TRUE})
    \/ delete_file(Worker, TRUE)
    \/ dispatch
    \/ \E p \in WatchPaths : create(p)
    \/ \E fh \in 1..MaxHandles : flush(fh)
    \/ \E fh \in 1..MaxHandles : release(fh)
    \/ \E old \in WatchPaths, new \in WatchPaths : rename(old, new)

SpecWatch == InitWatch /\ [][NextWatch]_vars

(***************************************************************************)
(* Properties of the write path (Spec).                                    *)
(***************************************************************************)
\* the bytes a remote object decrypts to
Cleartext(obj) ==
    IF obj.encrypted = "True" THEN decrypt(EncryptionKey, obj.body).data
    ELSE obj.body

\* nothing is queued, waiting, running or open
Quiescent ==
    /\ sync_queue = << >>
    /\ events = << >>
    /\ call = NoCall
    /\ \A t \in Threads : thr[t].pc = "idle"
    /\ \A fh \in 1..MaxHandles : ~open_files[fh].open

\* thread t ends its operation in this step
Ends(t) == thr[t].pc \notin {"idle", "lock", "done"} /\ thr'[t].pc \in {"idle", "done"}

\* C1: once every handle is released and the engine has nothing left to do,
\* the remote object of a path that was written through the VFS (not
\* excluded, not larger than max_file_size) decrypts to the bytes last
\* written; a run that stops in such a state never gets there later.
C1_WrittenBytesReachRemote ==
    \A p \in AllPaths :
        (/\ running
         /\ Quiescent
         /\ last_written[p].exists
         /\ Len(last_written[p].data) <= max_file_size
         /\ ~should_exclude_file(p))
        => /\ remote[p].exists
           /\ Cleartext(remote[p]) = last_written[p].data

\* C3: when _upload_file returns True after a put, the hash it records is
\* the SHA-256 of the bytes it put.
C3_HashOfUploadedBytes ==
    [][\A t \in Threads :
          (thr[t].pc = "u_meta" /\ Ends(t) /\ thr'[t].result)
          => LET p == thr[t].op.path
             IN  file_metadata'[p].hash = sha256(Cleartext(remote[p]))]_vars

\* C4 as stated: an _upload_file called while the cache file hashes to the
\* recorded hash returns True without a put.
C4_UnchangedAtDispatchSkipsPut ==
    [][\A t \in Threads :
          LET p == thr[t].op.path
          IN  (/\ thr[t].op.operation = "upload"
               /\ Ends(t)
               /\ thr[t].seen.exists
               /\ file_metadata[p].present
               /\ sha256(thr[t].seen.data) = file_metadata[p].hash)
              => thr'[t].result /\ thr[t].pc = "u_hash"]_vars

\* C4: when _upload_file compares hashes and the cache file hashes to the
\* recorded hash, it returns True and the bucket is not touched; a file
\* larger than max_file_size is turned down before that, with False and the
\* bucket not touched.
C4_DedupSkipsPut ==
    [][\A t \in Threads :
          LET p == thr[t].op.path
          IN  /\ (/\ thr[t].pc = "u_hash"
                  /\ thr'[t] # thr[t]
                  /\ cache[p].exists
                  /\ file_metadata[p].present
                  /\ sha256(cache[p].data) = file_metadata[p].hash)
                 => Ends(t) /\ thr'[t].result /\ remote' = remote
              /\ (/\ thr[t].pc = "u_size"
                  /\ thr'[t] # thr[t]
                  /\ cache[p].exists
                  /\ Len(cache[p].data) > max_file_size)
                 => Ends(t) /\ ~thr'[t].result /\ remote' = remote]_vars

\* an upload is about to compare hashes that are equal
C4_Witness ==
    \E t \in Threads :
        /\ thr[t].pc = "u_hash"
        /\ cache[thr[t].op.path].exists
        /\ file_metadata[thr[t].op.path].present
        /\ sha256(cache[thr[t].op.path].data)
              = file_metadata[thr[t].op.path].hash

\* C8: a Download queued by the initial sync (the only Downloads the worker
\* gets on the write path) leaves a cache file alone that existed when
\* _download_file was called.
C8_InitialSyncNeverOverwrites ==
    [][(/\ thr[Worker].pc = "d_write"
        /\ thr'[Worker].pc = "d_meta"
        /\ thr[Worker].seen.exists)
       => cache'[thr[Worker].op.path] = cache[thr[Worker].op.path]]_vars

(***************************************************************************)
(* Properties of the delete path (SpecDelete).                             *)
(***************************************************************************)
\* C9: unlink leaves no cache file; a Delete that ran leaves no remote
\* object; and once a Delete ran after unlink(P), with nothing but getattr
\* calls since the unlink, getattr(P) fails with ENOENT.
C9_UnlinkedStaysGone ==
    [][\A p \in VfsPaths :
          /\ unlink(p) => ~cache'[p].exists
          /\ (/\ thr[Worker].pc = "delete"
              /\ thr[Worker].op.path = p
              /\ Ends(Worker)
              /\ thr'[Worker].result)
             => ~remote'[p].exists
          /\ \A head \in HeadAnswers :
                (gone[p] = "dispatched" /\ getattr(p, head))
                => /\ call' = NoCall
                   /\ ret' = [op |-> "getattr", path |-> p,
                              val |-> "ENOENT"]]_vars

Running(t) == thr[t].pc \notin {"idle", "lock", "done"}

\* C2: no two of the worker, the download_file helper and the upload_file
\* caller are inside a sync operation on the same path at the same time.
C2_OneSyncOperationPerPath ==
    \A t1 \in Threads, t2 \in Threads :
        (t1 # t2 /\ Running(t1) /\ Running(t2))
        => thr[t1].op.path # thr[t2].op.path

\* the worker is inside an operation on /a while the helper and the caller
\* both wait to start one on /a
C2_Witness ==
    /\ Running(Worker)
    /\ thr[Worker].op.path = "/a"
    /\ thr[Helper].pc = "lock"
    /\ thr[Helper].op.path = "/a"
    /\ thr[Caller].pc = "lock"
    /\ thr[Caller].op.path = "/a"

\* C5: the queue never holds an Upload of a path whose basename matches an
\* excluded pattern, whether flush, release, rename or the watcher asked
\* for it.
C5_NoExcludedUploadQueued ==
    \A i \in 1..Len(sync_queue) :
        sync_queue[i].op.operation = "upload"
        => \A k \in 1..Len(excluded_patterns) :
              ~fnmatch(basename(sync_queue[i].op.path), excluded_patterns[k])

\* the only handle ever handed out was created on the excluded /t~ and
\* released dirty, and the watcher has dispatched every event of it
C5_Witness ==
    /\ ret = [op |-> "release", path |-> "/t~", val |-> "ok"]
    /\ fd_counter = 1
    /\ cache["/t~"].exists
    /\ observer
    /\ events = << >>

(***************************************************************************)
(* Sync operations that fail (SpecFail): the store refuses a put, a get or *)
(* a delete, the cache file is missing or too large, the object does not   *)
(* decrypt.                                                                *)
(***************************************************************************)
\* an object encrypted under a passphrase this device does not have
ForeignObject == Object(encrypt("k2", 1, <<3>>), "True", 1)

\* /a is cached and a peer has replaced its object; /b is the foreign object
InitFail ==
    /\ InitEngine
    /\ cache = [p \in AllPaths |-> IF p = "/a" THEN File(<<1>>) ELSE NoFile]
    /\ remote = [p \in AllPaths |-> CASE p = "/a" -> PeerObject
                                      [] p = "/b" -> ForeignObject
                                      [] OTHER -> NoObject]
    /\ InitFS

\* the worker and upload_file against a store that may refuse any request
NextFail ==
    \/ start(FALSE)
    \/ force_sync
    \/ process_sync_queue_get
    \/ sync_step(Worker, BOOLEAN)
    \/ sync_step(Caller, BOOLEAN)
    \/ \E p \in VfsPaths : upload_file(p)
    \/ upload_file_return
    \/ \E p \in VfsPaths : unlink(p)

SpecFail == InitFail /\ [][NextFail]_vars

(***************************************************************************)
(* SyncManager.stop() (SpecStop): running is cleared, the watcher stopped, *)
(* the worker joined for at most five seconds and the metadata saved.      *)
(***************************************************************************)
\* stop() up to sync_thread.join: the worker takes nothing more off the
\* queue, the observer is stopped and joined
stop_begin ==
    /\ running
    /\ stop_pc = "none"
    /\ running' = FALSE
    /\ observer' = FALSE
    /\ events' = << >>
    /\ stop_pc' = "joining"
    /\ UNCHANGED <<sync_queue, now, cache, remote, file_metadata, sync_lock,
                   thr, raised, vfs_vars, gone, uploaded, inflight,
                   metadata_file, more_vars>>

\* sync_thread.join(timeout=5) returns, because the worker has left its
\* loop or, with the worker still inside an operation, because the five
\* seconds are over; then _save_metadata() and stop() returns
stop_return(timeout) ==
    /\ stop_pc = "joining"
    /\ timeout = (thr[Worker].pc # "idle")
    /\ sync_threads' = IF timeout THEN sync_threads ELSE 0
    /\ metadata_file' = file_metadata
    /\ stop_pc' = "stopped"
    /\ UNCHANGED <<sync_queue, now, running, cache, remote, file_metadata,
                   sync_lock, thr, raised, observer, events, vfs_vars, gone,
                   uploaded, inflight, sent, crypto, alloc_vars, mtime,
                   status>>

\* the delete path of the engine with a stop() at any moment
NextStop ==
    \/ start(FALSE)
    \/ force_sync
    \/ process_sync_queue_get
    \/ acquire(Worker)
    \/ download_step(Worker, {TRUE})
    \/ delete_file(Worker, TRUE)
    \/ \E p \in VfsPaths : unlink(p)
    \/ stop_begin
    \/ \E timeout \in BOOLEAN : stop_return(timeout)

SpecStop == Init /\ [][NextStop]_vars

(***************************************************************************)
(* The engine after a crash (SpecRestart): the cache holds files, the      *)
(* metadata file was never saved and the bucket is empty.  The user goes   *)
(* on working with /b only, and the clock stands still.  The worker is a  *)
(* thread that always gets to run, hence the fairness of its steps.        *)
(***************************************************************************)
RestartPaths == {"/a", "/b"}

InitRestart ==
    /\ InitEngine
    /\ cache = [p \in AllPaths |->
                  IF p \in RestartPaths THEN File(<<1>>) ELSE NoFile]
    /\ remote = [p \in AllPaths |-> NoObject]
    /\ InitFS

NextRestart ==
    \/ start(FALSE)
    \/ \E priority \in Priorities : call_queue_upload("/b", priority)
    \/ process_sync_queue_get
    \/ acquire(Worker)
    \/ upload_step(Worker, {TRUE})

SpecRestart ==
    /\ InitRestart
    /\ [][NextRestart]_vars
    /\ WF_vars(start(FALSE))
    /\ WF_vars(process_sync_queue_get)
    /\ WF_vars(acquire(Worker))
    /\ WF_vars(upload_step(Worker, {TRUE}))

(***************************************************************************)
(* flush and release one step at a time (SpecHandle).  The FUSE loop is    *)
(* multi-threaded, so calls on one handle interleave; ShareBoxFS.lock is   *)
(* held only while release removes the entry.  fsync and close can fail.   *)
(***************************************************************************)
\* flush(path, fh) up to and including queue_upload: nothing happens for a
\* handle that is not in open_files, when os.fsync raises, or when the
\* handle is clean; an exception ends the call, which returns None
flush_begin(fh, fsync_ok) ==
    /\ running
    /\ inflight[fh].flush = "idle"
    /\ LET h == open_files[fh]
           r == queue_upload(sync_queue, h.path, 0, now)
       IN  IF ~h.open \/ ~fsync_ok \/ ~h.fd \/ ~h.dirty
           THEN /\ Returns("flush", h.path, "ok")
                /\ UNCHANGED <<sync_queue, raised, open_files, inflight>>
           ELSE /\ Len(sync_queue) < MaxQueue
                /\ sync_queue' = r.heap
                /\ raised' = IF r.raised THEN "put" ELSE "none"
                /\ IF r.raised
                   THEN /\ Returns("flush", h.path, "ok")
                        /\ UNCHANGED <<open_files, inflight>>
                   ELSE /\ open_files' =
                              [open_files EXCEPT ![fh].unsynced = FALSE]
                        /\ inflight' = [inflight EXCEPT ![fh].flush = "queued"]
                        /\ UNCHANGED ret
    /\ UNCHANGED <<now, running, cache, remote, file_metadata, sync_lock,
                   thr, observer, events, fd_counter, call, last_written,
                   gone, uploaded, stop_pc, metadata_file, more_vars>>

\* the same step when the KeyError of a removed entry is not caught
flush_end_raising(fh) ==
    /\ inflight[fh].flush = "queued"
    /\ inflight' = [inflight EXCEPT ![fh].flush = "idle"]
    /\ IF open_files[fh].open
       THEN /\ open_files' = [open_files EXCEPT ![fh].dirty = FALSE]
            /\ Returns("flush", open_files[fh].path, "ok")
       ELSE /\ UNCHANGED open_files
            /\ Returns("flush", open_files[fh].path, "EIO")
    /\ UNCHANGED <<sync_queue, now, running, cache, remote, file_metadata,
                   sync_lock, thr, raised, observer, events, fd_counter,
                   call, last_written, gone, uploaded, stop_pc,
                   metadata_file, more_vars>>

\* flush after queue_upload returned: open_files[fh]['dirty'] = False, a
\* KeyError when release removed the entry meanwhile; the call returns None
flush_end(fh) ==
    /\ inflight[fh].flush = "queued"
    /\ inflight' = [inflight EXCEPT ![fh].flush = "idle"]
    /\ IF open_files[fh].open
       THEN open_files' = [open_files EXCEPT ![fh].dirty = FALSE]
       ELSE UNCHANGED open_files
    /\ Returns("flush", open_files[fh].path, "ok")
    /\ UNCHANGED <<sync_queue, now, running, cache, remote, file_metadata,
                   sync_lock, thr, raised, observer, events, fd_counter,
                   call, last_written, gone, uploaded, stop_pc,
                   metadata_file, more_vars>>

\* release(path, fh) up to os.close: a dirty handle is fsynced and an upload
\* queued, an exception of either is logged; nothing happens for a handle
\* that is not in open_files
release_begin(fh, fsync_ok) ==
    /\ running
    /\ inflight[fh].release = "idle"
    /\ LET h == open_files[fh]
           r == queue_upload(sync_queue, h.path, 0, now)
       IN  IF ~h.open
           THEN /\ Returns("release", h.path, "ok")
                /\ UNCHANGED <<sync_queue, raised, open_files, inflight>>
           ELSE /\ inflight' = [inflight EXCEPT ![fh].release = "synced"]
                /\ UNCHANGED ret
                /\ IF h.dirty /\ fsync_ok /\ h.fd
                   THEN /\ Len(sync_queue) < MaxQueue
                        /\ sync_queue' = r.heap
                        /\ raised' = IF r.raised THEN "put" ELSE "none"
                        /\ open_files' = [open_files EXCEPT
                              ![fh].unsynced = r.raised /\ h.unsynced]
                   ELSE UNCHANGED <<sync_queue, raised, open_files>>
    /\ UNCHANGED <<now, running, cache, remote, file_metadata, sync_lock,
                   thr, observer, events, fd_counter, call, last_written,
                   gone, uploaded, stop_pc, metadata_file, more_vars>>

\* os.close(fd) in release: the descriptor is gone whether close returns or
\* raises OSError, which is logged
release_close(fh, close_ok) ==
    /\ inflight[fh].release = "synced"
    /\ inflight' = [inflight EXCEPT ![fh].release =
                       IF close_ok THEN "closed" ELSE "close failed"]
    /\ open_files' = [open_files EXCEPT ![fh].fd = FALSE]
    /\ UNCHANGED <<sync_queue, now, running, cache, remote, file_metadata,
                   sync_lock, thr, raised, observer, events, fd_counter,
                   call, ret, last_written, gone, uploaded, stop_pc,
                   metadata_file, more_vars>>

\* the end of release: the entry is removed under ShareBoxFS.lock
release_end(fh) ==
    /\ inflight[fh].release \in {"closed", "close failed"}
    /\ inflight' = [inflight EXCEPT ![fh].release = "idle"]
    /\ Returns("release", open_files[fh].path, "ok")
    /\ open_files' = [open_files EXCEPT ![fh] = NoHandle]
    /\ UNCHANGED <<sync_queue, now, running, cache, remote, file_metadata,
                   sync_lock, thr, raised, observer, events, fd_counter,
                   call, last_written, gone, uploaded, stop_pc,
                   metadata_file, more_vars>>

\* nothing cached, an empty bucket
InitHandle ==
    /\ InitEngine
    /\ cache = [p \in AllPaths |-> NoFile]
    /\ remote = [p \in AllPaths |-> NoObject]
    /\ InitFS

\* create and write against flush and release taken step by step, with the
\* worker uploading what they queue; the handles never handed out are the
\* ones that are not in open_files
NextHandle ==
    \/ Tick
    \/ start(FALSE)
    \/ process_sync_queue_get
    \/ acquire(Worker)
    \/ upload_step(Worker, {TRUE})
    \/ \E p \in VfsPaths : fd_counter < MaxCreates /\ create(p)
    \/ \E fh \in 1..MaxHandles, buf \in Bufs, offset \in Offsets :
          write(fh, buf, offset)
    \/ \E fh \in 1..MaxHandles, fsync_ok \in BOOLEAN : flush_begin(fh, fsync_ok)
    \/ \E fh \in 1..MaxHandles : flush_end(fh)
    \/ \E fh \in 1..MaxHandles, fsync_ok \in BOOLEAN :
          release_begin(fh, fsync_ok)
    \/ \E fh \in 1..MaxHandles, close_ok \in BOOLEAN :
          release_close(fh, close_ok)
    \/ \E fh \in 1..MaxHandles : release_end(fh)

SpecHandle == InitHandle /\ [][NextHandle]_vars

(***************************************************************************)
(* The write path over a store that never answers (SpecBusy): the worker   *)
(* reaches the put of its first upload and stays there, holding sync_lock. *)
(***************************************************************************)
NextBusy ==
    \/ start(FALSE)
    \/ \E p \in VfsPaths : fd_counter < MaxCreates /\ create(p)
    \/ \E fh \in 1..MaxHandles, buf \in Bufs, offset \in Offsets :
          write(fh, buf, offset)
    \/ \E fh \in 1..MaxHandles : flush(fh)
    \/ \E fh \in 1..MaxHandles : release(fh)
    \/ process_sync_queue_get
    \/ acquire(Worker)
    \/ upload_size(Worker)
    \/ upload_hash(Worker)

SpecBusy == InitHandle /\ [][NextBusy]_vars

(***************************************************************************)
(* Errors of the object store seen through getattr (SpecDelete).           *)
(***************************************************************************)
\* C11: when the existence check of getattr(P) fails for a reason other than
\* a missing key (a ClientError that is not a 404, or any other exception),
\* getattr does not report ENOENT.
C11_StoreErrorIsNotEnoent ==
    [][\A p \in AllPaths, head \in HeadAnswers \ {"answer"} :
          (getattr(p, head) /\ ~cache[p].exists)
          => ret'.val # "ENOENT"]_vars

(***************************************************************************)
(* flush and release under failures and interleaving (SpecHandle).         *)
(***************************************************************************)
\* C12: flush and release never report an error, whether the handle is in
\* open_files or not, whether os.fsync, os.close or queue_upload fails, and
\* whatever another call did to the entry meanwhile; a call that has begun
\* can always go on to its return.
C12_FlushReleaseNeverRaise ==
    /\ ret.op \in {"flush", "release"} => ret.val = "ok"
    /\ \A fh \in 1..MaxHandles :
          /\ inflight[fh].flush = "queued" => ENABLED flush_end(fh)
          /\ inflight[fh].release = "synced"
             => ENABLED release_close(fh, FALSE)
          /\ inflight[fh].release \in {"closed", "close failed"}
             => ENABLED release_end(fh)

\* release has returned after os.close failed, while queue_upload raised
\* and a flush of the same handle is still between queue_upload and the
\* write of 'dirty'
C12_Witness ==
    /\ ret = [op |-> "release", path |-> "/a", val |-> "ok"]
    /\ raised = "put"
    /\ ~open_files[1].open
    /\ inflight[1].flush = "queued"

(***************************************************************************)
(* Failing sync operations (SpecFail).                                     *)
(***************************************************************************)
\* C13: a step of an upload, download or delete that does not end the
\* operation with success leaves the metadata store and the queue as they
\* are: an operation that fails (the store refuses, the file is missing or
\* too large, the object does not decrypt) changes no metadata record and
\* is not queued again.
C13_FailureLeavesMetadata ==
    [][\A t \in Threads :
          (Running(t) /\ thr'[t] # thr[t] /\ ~(Ends(t) /\ thr'[t].result))
          => UNCHANGED <<file_metadata, sync_queue>>]_vars

\* upload_file of /a has failed on a cache file that is too large, and the
\* record of the download is still there
C13_Witness ==
    /\ thr[Caller].pc = "done"
    /\ ~thr[Caller].result
    /\ cache["/a"].exists
    /\ Len(cache["/a"].data) > max_file_size
    /\ file_metadata["/a"] = Meta(sha256(cache["/a"].data), 2)

(***************************************************************************)
(* Shutdown (SpecStop).                                                    *)
(***************************************************************************)
\* C14: once stop() has returned, the metadata file holds every record of
\* the in-memory metadata: no sync operation changes file_metadata after
\* the save of stop().
C14_SavedMetadataIsFinal ==
    (stop_pc = "stopped" /\ ~running) => metadata_file = file_metadata

(***************************************************************************)
(* Restart after a crash (SpecRestart).                                    *)
(***************************************************************************)
\* C15: once the engine runs again, a cache file that has no metadata
\* record is eventually uploaded: the bucket gets an object for it.
C15_UnrecordedFileIsUploaded ==
    \A p \in AllPaths :
        (running /\ cache[p].exists /\ ~file_metadata[p].present)
        ~> remote[p].exists

(***************************************************************************)
(* The user metadata of a put (Spec).                                      *)
(***************************************************************************)
\* C16: the object every put of an upload stores carries upload-time, the
\* content-hash of the stored bytes, device, encrypted equal to "true" or
\* "false", and original_size equal to the number of cleartext bytes that
\* were uploaded.
C16_PutCarriesUserMetadata ==
    [][\A t \in Threads :
          (thr[t].pc = "u_put" /\ thr'[t].pc = "u_meta")
          => LET o == remote'[thr[t].op.path]
             IN  /\ o.upload_time # ""
                 /\ o.content_hash = Digest(o.body)
                 /\ o.device # ""
                 /\ o.encrypted \in {"true", "false"}
                 /\ o.original_size = Len(Cleartext(o))]_vars

C18_DirtyWhileUnsynced ==
    \A fh \in 1..MaxHandles :
        (open_files[fh].open /\ open_files[fh].unsynced)
        => open_files[fh].dirty

\* C19: every handle that is in open_files has its descriptor open, also
\* while release of the handle runs next to read, write or flush on it.
C19_TableHandleHasOpenDescriptor ==
    \A fh \in 1..MaxHandles : open_files[fh].open => open_files[fh].fd

(***************************************************************************)
(* write, flush and release against a blocked worker (SpecBusy).           *)
(***************************************************************************)
\* what the store, the lock and the sync operation threads see
sync_side == <<remote, uploaded, sync_lock, thr>>

\* C20: in every state, whoever holds sync_lock and wherever the worker
\* stands inside a put or a get, write, flush and release on an open handle
\* can run to their return, in a step that changes neither the bucket nor
\* sync_lock nor any sync operation thread (only the bound on the queue
\* keeps the model from queueing).
C20_HandlersNeverWaitForSync ==
    \A fh \in 1..MaxHandles :
        (running /\ open_files[fh].open)
        => /\ ENABLED (write(fh, <<1>>, 0) /\ UNCHANGED sync_side)
           /\ Len(sync_queue) < MaxQueue
              => /\ ENABLED (flush(fh) /\ UNCHANGED sync_side)
                 /\ ENABLED (release(fh) /\ UNCHANGED sync_side)

\* the worker holds sync_lock and stands before the put of /a; after it took
\* the lock, handle 1, the only one, was written through and flushed
C20_Witness ==
    /\ thr[Worker].pc = "u_put"
    /\ sync_lock # "free"
    /\ fd_counter = 1
    /\ open_files[1].open
    /\ ~open_files[1].dirty
    /\ ~open_files[1].unsynced
    /\ cache["/a"] # thr[Worker].seen
    /\ ret = [op |-> "flush", path |-> "/a", val |-> "ok"]

(***************************************************************************)
(* Upload on one device, download on another (SpecTrip): a device uploads  *)
(* its cache file through upload_file; then an engine with the same        *)
(* passphrase is constructed over an empty cache directory, started, and   *)
(* its worker downloads what the initial sync finds in the bucket.         *)
(***************************************************************************)
\* the byte strings of at most MaxLen bytes
ByteStrings == UNION {[1..n -> Bytes] : n \in 0..MaxLen}

\* SyncManager.__init__ on a second device: an empty cache directory, no
\* metadata file, an empty queue, the same bucket and passphrase
second_device ==
    /\ ~running
    /\ \A t \in Threads : thr[t].pc = "idle"
    /\ \E p \in AllPaths : cache[p].exists
    /\ cache' = [p \in AllPaths |-> NoFile]
    /\ file_metadata' = [p \in AllPaths |-> NoMeta]
    /\ sync_queue' = << >>
    /\ thr' = [t \in Threads |-> Idle]
    /\ UNCHANGED <<now, running, remote, sync_lock, raised, observer, events,
                   vfs_vars, gone, uploaded, aux_vars>>

\* the first device holds one file, of any content; the bucket is empty
InitTrip ==
    /\ InitEngine
    /\ \E data \in ByteStrings :
          cache = [p \in AllPaths |-> IF p = "/a" THEN File(data) ELSE NoFile]
    /\ remote = [p \in AllPaths |-> NoObject]
    /\ InitFS

NextTrip ==
    \/ \E p \in VfsPaths : upload_file(p)
    \/ acquire(Caller)
    \/ upload_size(Caller)
    \/ upload_hash(Caller)
    \/ \E nonce \in Bytes : upload_put(Caller, nonce, TRUE)
    \/ upload_meta(Caller)
    \/ upload_file_return
    \/ second_device
    \/ start(FALSE)
    \/ process_sync_queue_get
    \/ acquire(Worker)
    \/ download_step(Worker, {TRUE})

SpecTrip == InitTrip /\ [][NextTrip]_vars

\* C21: when a download that started on an empty cache ends, for a path whose
\* object an upload put, it has succeeded, the cache file holds the bytes
\* that upload read, and the metadata record holds their hash and size.
C21_UploadDownloadRoundTrip ==
    [][\A t \in Threads :
          LET p == thr[t].op.path
          IN  (/\ thr[t].op.operation = "download"
               /\ ~thr[t].seen.exists
               /\ sent[p].exists
               /\ Ends(t))
              => /\ thr'[t].result
                 /\ cache'[p] = File(sent[p].data)
                 /\ file_metadata'[p] =
                       Meta(sha256(sent[p].data), Len(sent[p].data))]_vars

\* the second device has downloaded /a, a file of one byte
C21_Witness ==
    /\ running
    /\ thr[Worker].pc = "idle"
    /\ thr[Worker].result
    /\ sent["/a"].exists
    /\ Len(sent["/a"].data) = 1
    /\ cache["/a"] = sent["/a"]
    /\ file_metadata["/a"] = Meta(sha256(sent["/a"].data), 1)

(***************************************************************************)
(* The envelope alone (SpecCrypto): an EncryptionManager encrypts a byte   *)
(* string, one byte of the envelope may be changed, and the envelope is    *)
(* decrypted under the same passphrase.                                    *)
(***************************************************************************)
\* the values a changed byte may take: any byte, and the tag of any
\* envelope made under the same passphrase
TamperValues(password) ==
    Bytes \cup {encrypt(password, nonce, data)[NonceLen + 1] :
                   nonce \in Bytes, data \in ByteStrings}

\* EncryptionManager(password).encrypt(data) with the nonce it draws
crypto_encrypt(password, data, nonce) ==
    /\ crypto.pc = "idle"
    /\ crypto' = [crypto EXCEPT
                     !.pc = "sealed", !.password = password, !.data = data,
                     !.envelope = encrypt(password, nonce, data)]
    /\ UNCHANGED <<sync_queue, now, running, cache, remote, file_metadata,
                   sync_lock, thr, raised, observer, events, vfs_vars, gone,
                   uploaded, inflight, stop_pc, metadata_file, sent,
                   alloc_vars, mtime, app_vars>>

\* byte i of the envelope is changed on its way through the store
crypto_tamper(i) ==
    /\ crypto.pc = "sealed"
    /\ ~crypto.tampered
    /\ i \in 1..Len(crypto.envelope)
    /\ \E v \in TamperValues(crypto.password) :
          /\ v # crypto.envelope[i]
          /\ crypto' = [crypto EXCEPT !.envelope[i] = v, !.tampered = TRUE]
    /\ UNCHANGED <<sync_queue, now, running, cache, remote, file_metadata,
                   sync_lock, thr, raised, observer, events, vfs_vars, gone,
                   uploaded, inflight, stop_pc, metadata_file, sent,
                   alloc_vars, mtime, app_vars>>

\* decrypt(envelope)
crypto_decrypt ==
    /\ crypto.pc = "sealed"
    /\ crypto' = [crypto EXCEPT
                     !.pc = "opened",
                     !.out = decrypt(crypto.password, crypto.envelope)]
    /\ UNCHANGED <<sync_queue, now, running, cache, remote, file_metadata,
                   sync_lock, thr, raised, observer, events, vfs_vars, gone,
                   uploaded, inflight, stop_pc, metadata_file, sent,
                   alloc_vars, mtime, app_vars>>

\* nothing but the manager
InitCrypto ==
    /\ InitEngine
    /\ cache = [p \in AllPaths |-> NoFile]
    /\ remote = [p \in AllPaths |-> NoObject]
    /\ InitFS

\* a manager of either passphrase is handed any byte string
NextCrypto ==
    \/ \E password \in {Passwords[k] : k \in 1..Len(Passwords)},
          data \in ByteStrings, nonce \in Bytes :
          crypto_encrypt(password, data, nonce)
    \/ \E i \in 1..(NonceLen + TagLen + MaxLen) : crypto_tamper(i)
    \/ crypto_decrypt

SpecCrypto == InitCrypto /\ [][NextCrypto]_vars

\* C22: decrypting what encrypt returned gives the byte string back, and
\* decrypting an envelope one byte of which was changed raises, with the
\* failed tag as the cause, instead of returning data.
C22_DecryptInvertsEncryptAndAuthenticates ==
    crypto.pc = "opened"
    => IF crypto.tampered
       THEN crypto.out = DecryptFailed("InvalidTag")
       ELSE crypto.out = Decrypted(crypto.data)

\* a byte of the ciphertext of a two-byte string was changed, and decrypt
\* raised
C22_Witness ==
    /\ crypto.pc = "opened"
    /\ crypto.tampered
    /\ Len(crypto.data) = MaxLen
    /\ \E i \in (NonceLen + TagLen + 1)..Len(crypto.envelope) :
          crypto.envelope[i] #
             encrypt(crypto.password, crypto.envelope[1], crypto.data)[i]
    /\ crypto.out.raised

(***************************************************************************)
(* The listing after uploads and deletes (SpecList): the bucket holds the  *)
(* objects of /a and /b, the cache the files of every path; upload_file    *)
(* puts objects, unlink and the worker delete them.                        *)
(***************************************************************************)
ListPaths == {"/a", "/t~"}

InitList ==
    /\ InitEngine
    /\ cache = [p \in AllPaths |-> File(<<1>>)]
    /\ remote = [p \in AllPaths |-> CASE p = "/a" -> PeerObject
                                      [] p = "/b" -> ForeignObject
                                      [] OTHER -> NoObject]
    /\ InitFS

NextList ==
    \/ start(FALSE)
    \/ \E p \in ListPaths : upload_file(p)
    \/ acquire(Caller)
    \/ upload_step(Caller, {TRUE})
    \/ upload_file_return
    \/ \E p \in ListPaths : unlink(p)
    \/ process_sync_queue_get
    \/ acquire(Worker)
    \/ delete_file(Worker, TRUE)

SpecList == InitList /\ [][NextList]_vars

\* the paths a listing holds
Listed(files) == {files[i] : i \in 1..Len(files)}

\* C23: right after an upload of P returned success, list_remote_files() of
\* a store that answers contains P; right after a Delete of P returned
\* success, it does not.
C23_ListingFollowsUploadAndDelete ==
    [][\A t \in Threads :
          LET p == thr[t].op.path
          IN  (Ends(t) /\ thr'[t].result)
              => /\ thr[t].op.operation = "upload"
                    => p \in Listed(list_remote_files(remote', TRUE))
                 /\ thr[t].op.operation = "delete"
                    => p \notin Listed(list_remote_files(remote', TRUE))]_vars

(***************************************************************************)
(* Handles under concurrent open and create (SpecAlloc): two FUSE threads  *)
(* run create and open up to their `with self.lock` block and through it   *)
(* statement by statement, while release removes entries.                  *)
(***************************************************************************)
\* the variables the allocation steps leave alone
alloc_frame == <<sync_queue, now, running, remote, file_metadata, sync_lock,
                 thr, raised, observer, call, ret, gone, uploaded, inflight,
                 stop_pc, metadata_file, sent, crypto, mtime, app_vars>>

\* a handle is left for one more call
HandleLeft ==
    fd_counter + Cardinality({c \in FuseThreads : alloc[c].pc # "idle"})
       < MaxHandles

\* create(path) up to its lock: os.open(O_WRONLY | O_CREAT | O_TRUNC)
create_open(c, path) ==
    /\ running
    /\ alloc[c].pc = "idle"
    /\ HandleLeft
    /\ cache' = [cache EXCEPT ![path] = File(<< >>)]
    /\ Emit(<<Event(IF cache[path].exists THEN "modified" ELSE "created",
                    path)>>)
    /\ last_written' = [last_written EXCEPT ![path] = NoFile]
    /\ alloc' = [alloc EXCEPT ![c] =
                    [NoAlloc EXCEPT !.pc = "wait", !.path = path,
                                    !.mode = "w", !.dirty = TRUE]]
    /\ UNCHANGED <<alloc_frame, open_files, fd_counter, fs_lock, issued>>

\* open(path, flags) of a cached file up to its lock: os.open(flags)
open_open(c, path, flags) ==
    /\ running
    /\ alloc[c].pc = "idle"
    /\ HandleLeft
    /\ cache[path].exists
    /\ alloc' = [alloc EXCEPT ![c] =
                    [NoAlloc EXCEPT
                        !.pc = "wait", !.path = path,
                        !.mode = IF flags = "O_RDONLY" THEN "r" ELSE "w"]]
    /\ UNCHANGED <<alloc_frame, cache, events, last_written, open_files,
                   fd_counter, fs_lock, issued>>

\* a faulty `with self.lock`, for mutation testing: entered without waiting
alloc_lock_free(c) ==
    /\ alloc[c].pc = "wait"
    /\ fs_lock' = c
    /\ alloc' = [alloc EXCEPT ![c].pc = "load"]
    /\ UNCHANGED <<alloc_frame, cache, events, last_written, open_files,
                   fd_counter, issued>>

\* with self.lock:
alloc_lock(c) ==
    /\ alloc[c].pc = "wait"
    /\ fs_lock = "free"
    /\ fs_lock' = c
    /\ alloc' = [alloc EXCEPT ![c].pc = "load"]
    /\ UNCHANGED <<alloc_frame, cache, events, last_written, open_files,
                   fd_counter, issued>>

\* self.fd_counter += 1, the load
alloc_load(c) ==
    /\ alloc[c].pc = "load"
    /\ alloc' = [alloc EXCEPT ![c].pc = "store", ![c].tmp = fd_counter]
    /\ UNCHANGED <<alloc_frame, cache, events, last_written, open_files,
                   fd_counter, fs_lock, issued>>

\* self.fd_counter += 1, the store
alloc_store(c) ==
    /\ alloc[c].pc = "store"
    /\ fd_counter' = alloc[c].tmp + 1
    /\ alloc' = [alloc EXCEPT ![c].pc = "fh"]
    /\ UNCHANGED <<alloc_frame, cache, events, last_written, open_files,
                   fs_lock, issued>>

\* fh = self.fd_counter
alloc_fh(c) ==
    /\ alloc[c].pc = "fh"
    /\ alloc' = [alloc EXCEPT ![c].pc = "insert", ![c].fh = fd_counter]
    /\ UNCHANGED <<alloc_frame, cache, events, last_written, open_files,
                   fd_counter, fs_lock, issued>>

\* self.open_files[fh] = {...}
alloc_insert(c) ==
    /\ alloc[c].pc = "insert"
    /\ open_files' = [open_files EXCEPT ![alloc[c].fh] =
          Handle(alloc[c].path, alloc[c].mode, alloc[c].dirty)]
    /\ issued' = Append(issued, alloc[c].fh)
    /\ alloc' = [alloc EXCEPT ![c].pc = "unlock"]
    /\ UNCHANGED <<alloc_frame, cache, events, last_written, fd_counter,
                   fs_lock>>

\* the lock is left and fh returned
alloc_return(c) ==
    /\ alloc[c].pc = "unlock"
    /\ fs_lock' = IF fs_lock = c THEN "free" ELSE fs_lock
    /\ alloc' = [alloc EXCEPT ![c] = NoAlloc]
    /\ UNCHANGED <<alloc_frame, cache, events, last_written, open_files,
                   fd_counter, issued>>

NextAlloc ==
    \/ start(FALSE)
    \/ \E c \in FuseThreads, p \in VfsPaths : create_open(c, p)
    \/ \E c \in FuseThreads, p \in VfsPaths, flags \in OpenFlags :
          open_open(c, p, flags)
    \/ \E c \in FuseThreads :
          \/ alloc_lock(c)
          \/ alloc_load(c)
          \/ alloc_store(c)
          \/ alloc_fh(c)
          \/ alloc_insert(c)
          \/ alloc_return(c)
    \/ \E fh \in 1..MaxHandles : fs_lock = "free" /\ release(fh)

SpecAlloc == InitHandle /\ [][NextAlloc]_vars

\* C24: whenever open or create stores a handle, the handle is greater than
\* every handle stored before, released or not, and open_files has no entry
\* for it.
C24_HandlesStrictlyIncrease ==
    [][\A c \in FuseThreads :
          (alloc[c].pc = "insert" /\ alloc'[c].pc = "unlock")
          => /\ \A i \in 1..Len(issued) : issued[i] < alloc[c].fh
             /\ ~open_files[alloc[c].fh].open]_vars

\* handle 1 was handed out and released, and the next call, still inside
\* the lock, has stored handle 2
C24_Witness ==
    /\ issued = <<1, 2>>
    /\ ~open_files[1].open
    /\ open_files[2].open
    /\ \E c \in FuseThreads : alloc[c].pc = "unlock"

(***************************************************************************)
(* write on handles in and out of the table (SpecWrite): files are created *)
(* and opened, written through any handle number, flushed and released.    *)
(***************************************************************************)
NextWrite ==
    \/ start(FALSE)
    \/ \E p \in VfsPaths : fd_counter < MaxCreates /\ create(p)
    \/ \E p \in VfsPaths, flags \in OpenFlags :
          cache[p].exists /\ open(p, flags)
    \/ \E fh \in 1..MaxHandles, buf \in Bufs, offset \in Offsets :
          \/ write(fh, buf, offset)
          \/ write_ebadf(fh, buf, offset)
    \/ \E fh \in 1..MaxHandles : flush(fh)
    \/ \E fh \in 1..MaxHandles : release(fh)

SpecWrite == InitHandle /\ [][NextWrite]_vars

\* C25: a write call with a handle that is not in open_files returns EBADF
\* and leaves the cache and every dirty flag as they were; a write call with
\* a handle in open_files that returns the bytes written leaves that
\* handle's dirty flag set.
C25_WriteChecksHandleAndMarksDirty ==
    [][\A fh \in 1..MaxHandles, buf \in Bufs, offset \in Offsets :
          (write(fh, buf, offset) \/ write_ebadf(fh, buf, offset))
          => IF open_files[fh].open
             THEN ret'.val = "written" => open_files'[fh].dirty
             ELSE /\ ret'.val = "EBADF"
                  /\ cache' = cache
                  /\ \A g \in 1..MaxHandles :
                        open_files'[g].dirty = open_files[g].dirty]_vars

\* handle 1 was flushed clean and is dirty again after a write, and the last
\* call was a write through handle 2, which is not in the table
C25_Witness ==
    /\ open_files[1].open
    /\ open_files[1].dirty
    /\ open_files[1].unsynced
    /\ sync_queue # << >>
    /\ ~open_files[2].open
    /\ ret = [op |-> "write", path |-> "", val |-> "EBADF"]

(***************************************************************************)
(* open on a cache miss (SpecOpen): the bucket holds the object of /a, the *)
(* cache is empty, the store may refuse the get, and download_file may     *)
(* give up on its helper before the helper has ended.                      *)
(***************************************************************************)
\* the flags open is called with: O_RDONLY, or flags that hold one of
\* O_WRONLY, O_RDWR, O_CREAT
AllOpenFlags == {"O_RDONLY", "O_WRONLY", "O_RDWR", "O_CREAT"}

InitOpen ==
    /\ InitEngine
    /\ cache = [p \in AllPaths |-> NoFile]
    /\ remote = [p \in AllPaths |-> IF p = "/a" THEN PeerObject
                                    ELSE NoObject]
    /\ InitFS

NextOpen ==
    \/ start(FALSE)
    \/ \E p \in VfsPaths, flags \in AllOpenFlags : open(p, flags)
    \/ acquire(Helper)
    \/ download_step(Helper, BOOLEAN)
    \/ open_return
    \/ \E fh \in 1..MaxHandles : release(fh)
    \/ \E p \in VfsPaths : unlink(p)

SpecOpen == InitOpen /\ [][NextOpen]_vars

\* open is past download_file in this step
OpenReturns == call.op = "open" /\ call'.op # "open"

\* what download_file returns in that step is False: the helper ended with a
\* failure, or has not ended
DownloadFailed == ~(thr[Helper].pc = "done" /\ thr[Helper].result)

\* C26: when open finds no cache file after a download_file that returned
\* False, flags that hold O_WRONLY, O_RDWR or O_CREAT give a new empty cache
\* file and a new handle, and other flags give ENOENT and no handle; a handle
\* that open returns is stored with dirty = False.
C26_OpenOnFailedDownload ==
    [][OpenReturns
       => /\ (DownloadFailed /\ ~cache[call.path].exists)
             => IF call.flags \in {"O_WRONLY", "O_RDWR", "O_CREAT"}
                THEN /\ cache'[call.path] = File(<< >>)
                     /\ ret' = [op |-> "open", path |-> call.path,
                                val |-> "fh"]
                     /\ fd_counter' = fd_counter + 1
                     /\ open_files'[fd_counter'].open
                     /\ open_files'[fd_counter'].path = call.path
                ELSE /\ ret' = [op |-> "open", path |-> call.path,
                                val |-> "ENOENT"]
                     /\ open_files' = open_files
                     /\ fd_counter' = fd_counter
                     /\ cache' = cache
          /\ ret'.val = "fh" => ~open_files'[fd_counter'].dirty]_vars

\* an open of /a has failed with ENOENT on a missing cache file and left no
\* handle, after an earlier open had got handle 1
C26_Witness ==
    /\ ret = [op |-> "open", path |-> "/a", val |-> "ENOENT"]
    /\ fd_counter = 1
    /\ ~cache["/a"].exists
    /\ call = NoCall

(***************************************************************************)
(* create, then flush and release with no write (SpecCreate): every path   *)
(* is created at most once and nothing takes operations off the queue.     *)
(***************************************************************************)
NextCreate ==
    \/ start(FALSE)
    \/ \E p \in AllPaths : ~cache[p].exists /\ create(p)
    \/ \E fh \in 1..MaxHandles : flush(fh)
    \/ \E fh \in 1..MaxHandles : release(fh)

SpecCreate == InitHandle /\ [][NextCreate]_vars

\* the Uploads of `path` in the queue
Uploads(path) ==
    Cardinality({i \in 1..Len(sync_queue) :
                    /\ sync_queue[i].op.operation = "upload"
                    /\ sync_queue[i].op.path = path})

\* C27: a handle that create returns is dirty, and once a created path has no
\* dirty handle left (it was flushed or released, and never written), the
\* queue holds exactly one Upload of it, or none if the path is excluded;
\* it never holds more.
C27_CreateQueuesOneUpload ==
    /\ \A fh \in 1..MaxHandles :
          (open_files[fh].open /\ ret.op = "create" /\ fh = fd_counter)
          => open_files[fh].dirty
    /\ \A p \in AllPaths :
          /\ Uploads(p) <= 1
          /\ (/\ cache[p].exists
              /\ \A fh \in 1..MaxHandles :
                    ~(open_files[fh].open /\ open_files[fh].path = p
                      /\ open_files[fh].dirty))
             => Uploads(p) = IF should_exclude_file(p) THEN 0 ELSE 1

(***************************************************************************)
(* rename (SpecWatch).                                                     *)
(***************************************************************************)
\* the queue holds the operation `operation` on `path`
Queued(queue, operation, path) ==
    \E i \in 1..Len(queue) :
        /\ queue[i].op.operation = operation
        /\ queue[i].op.path = path

\* C28: every rename(old, new) returns without an error and leaves a Delete
\* of old in the queue and, unless new is excluded, an Upload of new.
C28_RenameQueuesDeleteThenUpload ==
    [][\A old \in WatchPaths, new \in WatchPaths :
          rename(old, new)
          => /\ ret' = [op |-> "rename", path |-> old, val |-> "ok"]
             /\ Queued(sync_queue', "delete", old)
             /\ should_exclude_file(new)
                \/ Queued(sync_queue', "upload", new)]_vars

(***************************************************************************)
(* The size limit of an upload (SpecTrip).                                 *)
(***************************************************************************)
\* C29: an upload of a cache file of exactly max_file_size bytes ends with
\* True, the object in the bucket and the record written; an upload of a
\* file one byte larger ends at the size check with False, before any put,
\* and leaves the bucket and the metadata as they were.
C29_SizeLimitIsInclusive ==
    [][LET f == thr[Caller].seen
       IN  (Ends(Caller) /\ thr[Caller].op.operation = "upload" /\ f.exists)
           => /\ Len(f.data) = max_file_size
                 => /\ thr'[Caller].result
                    /\ remote'["/a"].exists
                    /\ sent'["/a"] = f
                    /\ file_metadata'["/a"] =
                          Meta(sha256(f.data), max_file_size)
              /\ Len(f.data) = max_file_size + 1
                 => /\ ~thr'[Caller].result
                    /\ thr[Caller].pc = "u_size"
                    /\ remote' = remote
                    /\ file_metadata' = file_metadata]_vars

\* upload_file has returned True for a file of exactly max_file_size bytes
\* that it has put
C29_Witness ==
    /\ thr[Caller].pc = "done"
    /\ thr[Caller].result
    /\ cache["/a"].exists
    /\ Len(cache["/a"].data) = max_file_size
    /\ sent["/a"] = cache["/a"]

(***************************************************************************)
(* The remote poll (SpecPoll): cache files and objects of any age; the     *)
(* worker thread runs _check_remote_changes between two passes over the    *)
(* queue, which holds what the initial sync and earlier polls have queued. *)
(***************************************************************************)
\* the loop of _check_remote_changes over the listing; the first exception
\* ends it
RECURSIVE poll_files(_, _, _)
poll_files(queue, files, time) ==
    IF files = << >> THEN [heap |-> queue, raised |-> FALSE]
    ELSE LET virtual_path == Head(files)
             r == IF cache[virtual_path].exists
                  THEN IF mtime.remote[virtual_path]
                             > mtime.cache[virtual_path]
                       THEN queue_download(queue, virtual_path, 1, time)
                       ELSE [heap |-> queue, raised |-> FALSE]
                  ELSE queue_download(queue, virtual_path, 0, time)
         IN  IF r.raised THEN r
             ELSE poll_files(r.heap, Tail(files), time)

\* _check_remote_changes(), called from _sync_loop; `ok` is whether the
\* store answers the listing; any exception is logged
check_remote_changes(ok) ==
    /\ running
    /\ thr[Worker].pc = "idle"
    /\ Len(sync_queue) + max_keys <= MaxHeap
    /\ LET r == poll_files(sync_queue, list_files(remote, ok), now)
       IN  /\ sync_queue' = r.heap
           /\ raised' = IF r.raised THEN "put" ELSE "none"
    /\ UNCHANGED <<now, running, cache, remote, file_metadata, sync_lock,
                   thr, observer, events, vfs_vars, gone, uploaded, aux_vars>>

\* the modification times of what exists
Stamps(exists) ==
    {times \in [AllPaths -> 0..MaxStamp] :
        \A p \in AllPaths : ~exists[p] => times[p] = 0}

\* any set of cache files and any set of objects, of any age
InitPoll ==
    /\ InitEngine
    /\ cache \in [AllPaths -> {NoFile, File(<<1>>)}]
    /\ remote \in [AllPaths -> {NoObject, PeerObject}]
    /\ \E local \in Stamps([p \in AllPaths |-> cache[p].exists]),
          last_modified \in Stamps([p \in AllPaths |-> remote[p].exists]) :
          InitFSAt([kept |-> TRUE, cache |-> local,
                    remote |-> last_modified])

NextPoll ==
    \/ Tick
    \/ start(FALSE)
    \/ \E ok \in BOOLEAN : check_remote_changes(ok)

SpecPoll == InitPoll /\ [][NextPoll]_vars

\* how often the queue holds the operation `op`
Count(queue, op) == Cardinality({i \in 1..Len(queue) : queue[i].op = op})

\* the Downloads a poll at time `time` may queue for `path`
PollDownload(path, priority, time) ==
    SyncOperation("download", path, priority, time)

\* C30: a poll over a store that answers adds to the queue, for every object
\* of the bucket, one Download at priority 1 if the cache file exists and
\* the object's last_modified is greater than the file's mtime and none at
\* priority 1 otherwise, and one Download at priority 0 if the cache file
\* is missing and none at priority 0 otherwise.
C30_PollQueuesDownloads ==
    [][check_remote_changes(TRUE)
       => \A p \in AllPaths :
             remote[p].exists
             => /\ Count(sync_queue', PollDownload(p, 1, now))
                      - Count(sync_queue, PollDownload(p, 1, now))
                   = IF cache[p].exists /\ mtime.remote[p] > mtime.cache[p]
                     THEN 1 ELSE 0
                /\ Count(sync_queue', PollDownload(p, 0, now))
                      - Count(sync_queue, PollDownload(p, 0, now))
                   = IF cache[p].exists THEN 0 ELSE 1]_vars

(***************************************************************************)
(* A remote change reaching the cache (SpecFresh): every path is cached    *)
(* and uploaded, then another device replaces objects while the worker     *)
(* polls and downloads.  The worker thread always gets to run and the      *)
(* store answers every request, hence the fairness of its steps.           *)
(***************************************************************************)
\* the object this device's upload of a one-byte file left
OwnObject == Object(encrypt(EncryptionKey, 1, <<1>>), "True", 1)

\* another device puts the object `obj` under the key of `path`;
\* LastModified is the time of the put
peer_put(path, obj) ==
    /\ remote[path] # obj
    /\ remote' = [remote EXCEPT ![path] = obj]
    /\ uploaded' = uploaded \cup {path}
    /\ mtime' = Stamp("remote", path, now)
    /\ UNCHANGED <<sync_queue, now, running, cache, file_metadata, sync_lock,
                   thr, raised, observer, events, vfs_vars, gone, still_vars>>

\* every path cached and uploaded at time 0
InitFresh ==
    /\ InitEngine
    /\ cache = [p \in AllPaths |-> File(<<1>>)]
    /\ remote = [p \in AllPaths |-> OwnObject]
    /\ InitFSAt([kept |-> TRUE, cache |-> [p \in AllPaths |-> 0],
                 remote |-> [p \in AllPaths |-> 0]])

NextFresh ==
    \/ Tick
    \/ start(FALSE)
    \/ \E p \in AllPaths : peer_put(p, PeerObject)
    \/ check_remote_changes(TRUE)
    \/ process_sync_queue_get
    \/ acquire(Worker)
    \/ download_step(Worker, {TRUE})

SpecFresh ==
    /\ InitFresh
    /\ [][NextFresh]_vars
    /\ WF_vars(start(FALSE))
    /\ WF_vars(check_remote_changes(TRUE))
    /\ WF_vars(process_sync_queue_get)
    /\ WF_vars(acquire(Worker))
    /\ WF_vars(download_step(Worker, {TRUE}))

\* the object of `path` is newer than its cache file
Stale(path) ==
    /\ cache[path].exists
    /\ remote[path].exists
    /\ mtime.remote[path] > mtime.cache[path]

\* C31: whenever the object of a path is newer than its cache file, the
\* cache file comes to hold the object's bytes with a modification time
\* that is not older than the object's, so that the next poll queues no
\* Download for it.
C31_RemoteChangeReachesCache ==
    \A p \in AllPaths :
        Stale(p) ~> (/\ cache[p].exists
                     /\ cache[p].data = Cleartext(remote[p])
                     /\ ~Stale(p))

(***************************************************************************)
(* A local write against a remote change (SpecRace): /a is cached and      *)
(* uploaded; the application opens it and writes once while another device *)
(* replaces the object, the watcher reports the write and the worker polls *)
(* and drains the queue.                                                   *)
(***************************************************************************)
\* the bytes the application writes and the object the other device puts
LocalBytes == <<2>>
NewerObject == Object(encrypt(EncryptionKey, 2, <<3>>), "True", 1)

InitRace ==
    /\ InitEngine
    /\ cache = [p \in AllPaths |-> IF p = "/a" THEN File(<<1>>) ELSE NoFile]
    /\ remote = [p \in AllPaths |-> IF p = "/a" THEN OwnObject ELSE NoObject]
    /\ InitFSAt([kept |-> TRUE, cache |-> [p \in AllPaths |-> 0],
                 remote |-> [p \in AllPaths |-> 0]])

NextRace ==
    \/ Tick
    \/ \E watching \in BOOLEAN : start(watching)
    \/ fd_counter = 0 /\ open("/a", "O_WRONLY")
    \/ \E fh \in 1..MaxHandles :
          ~last_written["/a"].exists /\ write(fh, LocalBytes, 0)
    \/ \E fh \in 1..MaxHandles : flush(fh)
    \/ \E fh \in 1..MaxHandles : release(fh)
    \/ dispatch
    \/ peer_put("/a", NewerObject)
    \/ check_remote_changes(TRUE)
    \/ process_sync_queue_get
    \/ acquire(Worker)
    \/ upload_step(Worker, {TRUE})
    \/ download_step(Worker, {TRUE})

SpecRace == InitRace /\ [][NextRace]_vars

\* a Download the poll queued for a stale `path` waits while the cache file
\* holds bytes written through the VFS before the object was put, which the
\* bucket does not hold
WriteInFlight(path) ==
    /\ \E i \in 1..Len(sync_queue) :
          sync_queue[i].op = PollDownload(path, 1, sync_queue[i].op.timestamp)
    /\ Stale(path)
    /\ last_written[path].exists
    /\ cache[path] = last_written[path]
    /\ Cleartext(remote[path]) # last_written[path].data

\* C32: while the Download that the poll queued for a path waits, the
\* object being newer than a local write that is not uploaded yet, no step
\* puts the bytes of that write into the bucket.
C32_LocalWriteIsLost ==
    [][WriteInFlight("/a") => Cleartext(remote'["/a"]) # LocalBytes]_vars

(***************************************************************************)
(* Priorities in the queue (SpecWatch: the VFS handlers beside the         *)
(* watcher).                                                               *)
(***************************************************************************)
\* C33: every queued operation carries a priority of its kind's origins:
\* an Upload 2 (a created file) or 1 (a modified file), a Delete 1, a
\* Download 0 (initial sync) or 1 (poll), whether the VFS or the watcher
\* queued it.
C33_PrioritiesByOrigin ==
    \A i \in 1..Len(sync_queue) :
        LET op == sync_queue[i].op
        IN  /\ op.operation = "upload" => op.priority \in {1, 2}
            /\ op.operation = "delete" => op.priority = 1
            /\ op.operation = "download" => op.priority \in {0, 1}

(***************************************************************************)
(* get_sync_status (SpecStatus): ShareBoxApp asks for the status while the *)
(* worker downloads what the initial sync queued and getattr has the       *)
(* helper thread download the same file.                                   *)
(***************************************************************************)
\* len(self.file_metadata)
Tracked(metadata) == Cardinality({p \in AllPaths : metadata[p].present})

\* get_sync_status() up to 'files_tracked': running, qsize() and
\* len(self.file_metadata) are read; sync_lock is not taken
get_sync_status_begin ==
    /\ status.pc = "idle"
    /\ status' = [pc |-> "reading",
                  files_tracked |-> Tracked(file_metadata)]
    /\ UNCHANGED <<sync_queue, now, running, cache, remote, file_metadata,
                   sync_lock, thr, raised, observer, events, vfs_vars, gone,
                   uploaded, inflight, stop_pc, metadata_file, sent, crypto,
                   alloc_vars, mtime, sync_threads>>

\* the loop over self.file_metadata.values() for 'last_sync' is over and
\* the status is returned
get_sync_status_return ==
    /\ status.pc = "reading"
    /\ status' = [status EXCEPT !.pc = "idle"]
    /\ UNCHANGED <<sync_queue, now, running, cache, remote, file_metadata,
                   sync_lock, thr, raised, observer, events, vfs_vars, gone,
                   uploaded, inflight, stop_pc, metadata_file, sent, crypto,
                   alloc_vars, mtime, sync_threads>>

NextStatus ==
    \/ start(FALSE)
    \/ process_sync_queue_get
    \/ acquire(Worker)
    \/ download_step(Worker, {TRUE})
    \/ \E p \in VfsPaths, head \in HeadAnswers : getattr(p, head)
    \/ getattr_return
    \/ acquire(Helper)
    \/ download_step(Helper, {TRUE})
    \/ get_sync_status_begin
    \/ get_sync_status_return

SpecStatus == Init /\ [][NextStatus]_vars

\* C34: while get_sync_status reads the metadata, no record is written or
\* removed.
C34_StatusReadsUnderLock ==
    [][status.pc = "reading" => file_metadata' = file_metadata]_vars

(***************************************************************************)
(* download_file at its timeout (SpecAbandon): getattr and open wait for   *)
(* the helper thread while the worker downloads what the initial sync      *)
(* queued; the store may fail the helper's requests.  Threads always get   *)
(* to run, hence the fairness of the worker's and the helper's steps.      *)
(***************************************************************************)
NextAbandon ==
    \/ start(FALSE)
    \/ process_sync_queue_get
    \/ acquire(Worker)
    \/ download_step(Worker, {TRUE})
    \/ \E p \in VfsPaths, head \in HeadAnswers : getattr(p, head)
    \/ getattr_return
    \/ \E p \in VfsPaths, flags \in OpenFlags : open(p, flags)
    \/ open_return
    \/ acquire(Helper)
    \/ download_step(Helper, BOOLEAN)

SpecAbandon ==
    /\ Init
    /\ [][NextAbandon]_vars
    /\ WF_vars(process_sync_queue_get)
    /\ WF_vars(acquire(Worker))
    /\ WF_vars(download_step(Worker, {TRUE}))
    /\ WF_vars(acquire(Helper))
    /\ WF_vars(download_step(Helper, BOOLEAN))

\* the handler that waits in download_file gets its answer in this step
\* while the helper thread has not ended
TimesOut ==
    /\ call # NoCall
    /\ call' = NoCall
    /\ thr[Helper].pc \notin {"idle", "done"}

\* C35: when download_file returns with its helper thread still alive,
\* waiting for sync_lock or inside _download_file, it returns False (getattr
\* then answers with the default attributes) and the helper is left as it
\* is; an abandoned helper goes on until its _download_file has returned.
C35_TimeoutAbandonsHelper ==
    /\ [][TimesOut =>
            /\ thr'[Helper] = [thr[Helper] EXCEPT !.orphan = TRUE]
            /\ call.op = "getattr" => ret'.val = "default"]_vars
    /\ \A pc \in {"lock", "d_get", "d_write", "d_meta"} :
          (thr[Helper].orphan /\ thr[Helper].pc = pc)
          ~> (thr[Helper].pc = "idle")

\* getattr has answered with the default attributes and its helper, left
\* behind, still waits for sync_lock, which the worker holds
C35_Witness ==
    /\ ret.op = "getattr"
    /\ ret.val = "default"
    /\ thr[Helper].orphan
    /\ thr[Helper].pc = "lock"
    /\ sync_lock = Worker

(***************************************************************************)
(* The hash comparison on a single device (SpecDedup): an empty bucket     *)
(* that only this device writes to, no watcher; the application creates    *)
(* /a, writes, flushes and releases while the worker uploads.              *)
(***************************************************************************)
NextDedup ==
    \/ start(FALSE)
    \/ \E p \in VfsPaths : fd_counter < MaxCreates /\ create(p)
    \/ \E fh \in 1..MaxHandles, buf \in Bufs, offset \in Offsets :
          write(fh, buf, offset)
    \/ \E fh \in 1..MaxHandles : flush(fh)
    \/ \E fh \in 1..MaxHandles : release(fh)
    \/ process_sync_queue_get
    \/ acquire(Worker)
    \/ upload_step(Worker, {TRUE})

SpecDedup == InitWatch /\ [][NextDedup]_vars

\* thread t's _upload_file returns True from the hash comparison
SkipsPut(t) ==
    /\ thr[t].pc = "u_hash"
    /\ Ends(t)
    /\ thr'[t].result

\* C36: whenever _upload_file returns from the hash comparison without a
\* put, the object of the path holds the bytes of the cache file.
C36_SkippedUploadIsCurrent ==
    [][\A t \in Threads :
          SkipsPut(t)
          => LET p == thr[t].op.path
             IN  /\ remote[p].exists
                 /\ Cleartext(remote[p]) = cache[p].data]_vars

(***************************************************************************)
(* The watcher's echo of a download (SpecEcho): the bucket holds an object *)
(* of this device for /a, which is not cached; the worker (initial sync)   *)
(* and the helper (getattr) download it under a running watcher.  The      *)
(* application works on /b only, so the cache file of /a is always as a    *)
(* download wrote it.                                                      *)
(***************************************************************************)
InitEcho ==
    /\ InitEngine
    /\ cache = [p \in AllPaths |-> NoFile]
    /\ remote = [p \in AllPaths |-> IF p = "/a" THEN OwnObject ELSE NoObject]
    /\ InitFS

NextEcho ==
    \/ start(TRUE)
    \/ dispatch
    \/ process_sync_queue_get
    \/ acquire(Worker)
    \/ upload_step(Worker, {TRUE})
    \/ download_step(Worker, {TRUE})
    \/ \E head \in HeadAnswers : getattr("/a", head)
    \/ getattr_return
    \/ acquire(Helper)
    \/ download_step(Helper, {TRUE})
    \/ fd_counter < MaxCreates /\ create("/b")
    \/ \E fh \in 1..MaxHandles : release(fh)

SpecEcho == InitEcho /\ [][NextEcho]_vars

sync_loop_exit ==
    /\ ~running
    /\ stop_pc = "stopped"
    /\ thr[Worker].pc = "idle"
    /\ sync_threads > 0
    /\ sync_threads' = sync_threads - 1
    /\ UNCHANGED <<sync_queue, now, running, cache, remote, file_metadata,
                   sync_lock, thr, raised, observer, events, vfs_vars, gone,
                   uploaded, inflight, stop_pc, metadata_file, sent, crypto,
                   alloc_vars, mtime, status>>

\* start() and stop() are called one after the other, never concurrently
NextCycle ==
    \/ stop_pc # "joining" /\ start(FALSE)
    \/ process_sync_queue_get
    \/ acquire(Worker)
    \/ download_step(Worker, BOOLEAN)
    \/ \E head \in HeadAnswers : getattr("/a", head)
    \/ getattr_return
    \/ acquire(Helper)
    \/ download_step(Helper, {TRUE})
    \/ stop_begin
    \/ \E timeout \in BOOLEAN : stop_return(timeout)
    \/ sync_loop_exit

SpecCycle == InitEcho /\ [][NextCycle]_vars

\* C38: at no moment are two threads inside _sync_loop
C38_OneSyncWorker == sync_threads <= 1

(***************************************************************************)
(* Writing to a file that open created after download_file gave up         *)
(* (SpecOrphan): the bucket holds the object of /a, the cache is empty;    *)
(* /a is opened for writing once and written through the handle, while    *)
(* the helper of download_file goes on with _download_file.                *)
(***************************************************************************)
NextOrphan ==
    \/ start(FALSE)
    \/ fd_counter = 0 /\ open("/a", "O_WRONLY")
    \/ open_return
    \/ \E buf \in Bufs, offset \in Offsets : write(1, buf, offset)
    \/ acquire(Helper)
    \/ download_step(Helper, {TRUE})
    \/ process_sync_queue_get
    \/ acquire(Worker)
    \/ download_step(Worker, {TRUE})

SpecOrphan == InitOpen /\ [][NextOrphan]_vars

\* C39: the write of a helper that download_file no longer waits for leaves
\* a cache file alone that holds the bytes written through the handle that
\* open returned.
C39_OrphanKeepsWrittenBytes ==
    [][(/\ thr[Helper].orphan
        /\ thr[Helper].pc = "d_write"
        /\ thr'[Helper].pc # "d_write"
        /\ open_files[1].open
        /\ last_written["/a"].exists
        /\ cache["/a"] = last_written["/a"])
       => cache'["/a"] = cache["/a"]]_vars

(***************************************************************************)
(* The device at rest (SpecQuiet): an empty bucket that only this device   *)
(* writes to, no watcher, every request to the store succeeds; the         *)
(* application creates, writes, flushes, releases and unlinks /a while the *)
(* worker runs the queue.                                                  *)
(***************************************************************************)
NextQuiet ==
    \/ start(FALSE)
    \/ \E p \in VfsPaths : fd_counter < MaxCreates /\ create(p)
    \/ \E fh \in 1..MaxHandles, buf \in Bufs, offset \in Offsets :
          write(fh, buf, offset)
    \/ \E fh \in 1..MaxHandles : flush(fh)
    \/ \E fh \in 1..MaxHandles : release(fh)
    \/ \E p \in VfsPaths : unlink(p)
    \/ process_sync_queue_get
    \/ acquire(Worker)
    \/ upload_step(Worker, {TRUE})
    \/ delete_file(Worker, TRUE)

SpecQuiet == InitWatch /\ [][NextQuiet]_vars

\* C40: with nothing queued, running or open, every path that is not
\* excluded and whose cache file holds bytes written through the VFS has
\* an object that decrypts to these bytes, and a path without a cache file
\* (here: an unlinked one) has no object.
C40_QuiescentConsistency ==
    (running /\ Quiescent)
    => \A p \in AllPaths :
          /\ (/\ ~should_exclude_file(p)
              /\ cache[p].exists
              /\ cache[p] = last_written[p])
             => /\ remote[p].exists
                /\ Cleartext(remote[p]) = cache[p].data
          /\ ~cache[p].exists => ~remote[p].exists

====
